---- MODULE Spec2Model ----
(***************************************************************************)
(* Convergence probe engine of sdwan-traffic-generator-web                 *)
(* (src/engines/convergence_orchestrator.py): the ConvergenceMetrics       *)
(* aggregator, the sender loop and shutdown sequence of __main__, the      *)
(* receiver thread and the stats writer thread.                            *)
(*                                                                         *)
(* Times are integers in milliseconds (the code keeps float seconds and    *)
(* multiplies by 1000.0 where it reports milliseconds); every clock value  *)
(* is a whole number of milliseconds, so round(outage) is the value itself.*)
(* The jitter accumulator is the exact fraction <<numerator, denominator>>.*)
(***************************************************************************)
EXTENDS Integers, Sequences, FiniteSets, TLC

\* ---------------------------------------------------------------- bounds
MaxSeq == 2
MaxRecvSeq == 2
MaxTicks == 1
TickMs == 200
MaxDatagrams == 3
MaxPaced == 8
MaxFrames == 3
SilentProbes == 20
JitterProbes == 3

\* ------------------------------------------------------ program constants
ResyncSlack == 100
HistoryLen == 100
ThresholdFloorMs == 100
DefaultRate == 50
DefaultDuration == 0
RampMs == 5000
StopSleepMs == 300
SeqFieldMax == 65535
RateFloor == 10
ResetLagUs == 500000
SessionExpiryMs == 60000

\* -------------------------------------------------------------- inputs
Rates == {5, DefaultRate}
EchoCounts == {0, 3}
ServerCounts == {0, 1, 3, 50, 150}
RecvSeqs == 1..MaxRecvSeq

VARIABLES metrics, rate, test_end_time, now, seq, pc, stop_event, graceful_shutdown,
          rpc, ppc, mloc,
          ploc, poll, sink, lastOp,
          active_sessions, hloc, echoes, call, pace, voice

vars == <<metrics, rate, test_end_time, now, seq, pc, stop_event, graceful_shutdown,
          rpc, ppc, mloc, ploc, poll, sink, lastOp,
          active_sessions, hloc, echoes, call, pace, voice>>

\* the state of the echo server, and that of the orchestrator but the clock
server == <<active_sessions, hloc, echoes>>

orch == <<metrics, rate, test_end_time, seq, pc, stop_event,
          graceful_shutdown, rpc, ppc, mloc, ploc, poll, sink, lastOp,
          pace>>

\* ------------------------------------------------------------- helpers
Max(a, b) == IF a > b THEN a ELSE b

Abs(x) == IF x < 0 THEN -x ELSE x

MaxOfSet(S) == CHOOSE x \in S : \A y \in S : y <= x

\* ------------------------------------------------- ConvergenceMetrics
\* __init__: start_time is the origin of the clock (0)
InitMetrics ==
    [ sent_count |-> 0,
      sent_seqs |-> {},
      sent_times |-> <<>>,
      received_seqs |-> {},
      server_received |-> 0,
      rtts |-> <<>>,
      last_transit_time |-> <<>>,
      jitter |-> <<0, 1>>,
      last_rcvd_time |-> 0,
      max_blackout |-> 0,
      tx_attempts |-> 0,
      tx_errors |-> 0,
      server_received_offset |-> 0,
      last_seen_server_count |-> 0,
      sync_lost |-> FALSE ]

record_send(m, s, timestamp) ==
    [m EXCEPT !.sent_count = @ + 1,
              !.sent_seqs = @ \cup {s},
              !.sent_times = [k \in (DOMAIN @) \cup {s} |->
                                 IF k = s THEN timestamp ELSE @[k]]]

\* the failed sequence left in place
mark_send_failed_kept(m, s) == m

mark_send_failed(m, s) ==
    [m EXCEPT !.sent_seqs = @ \ {s},
              !.sent_times = [k \in (DOMAIN @) \ {s} |-> @[k]]]

record_send_attempt(m) == [m EXCEPT !.tx_attempts = @ + 1]

record_send_error(m) == [m EXCEPT !.tx_errors = @ + 1]

\* the estimator with a gain of 1/8
JitterUpdate_eighth(j, d) ==
    IF 7 * j[1] + d * j[2] = 0 THEN <<0, 1>>
    ELSE <<7 * j[1] + d * j[2], 8 * j[2]>>

\* RFC 3550 estimator J + (d - J)/16 on the fraction J = j[1]/j[2]
\* (a zero estimate is kept as 0/1)
JitterUpdate(j, d) ==
    IF 15 * j[1] + d * j[2] = 0 THEN <<0, 1>>
    ELSE <<15 * j[1] + d * j[2], 16 * j[2]>>

\* the reset test without the slack of 100
ServerReset_noSlack(m, server_count) ==
    server_count < m.last_seen_server_count

\* the reset test with a slack of 1000
ServerReset_wideSlack(m, server_count) ==
    server_count < m.last_seen_server_count - 1000

\* line 114: the server count went backwards by more than the slack
ServerReset(m, server_count) ==
    server_count < m.last_seen_server_count - ResyncSlack

\* sent_times.get(seq, self.start_time): a default instead of None
SentTime_default(m, s) ==
    IF s \in DOMAIN m.sent_times THEN <<m.sent_times[s]>> ELSE <<0>>

\* line 124: self.sent_times.get(seq), <<>> standing for None
SentTime(m, s) ==
    IF s \in DOMAIN m.sent_times THEN <<m.sent_times[s]>> ELSE <<>>

\* the effective count stored whether or not it is the larger one
ServerReceived_overwrite(current, effective_server_count) ==
    effective_server_count

\* lines 121-122: the stored counter only moves up
ServerReceived(current, effective_server_count) ==
    IF effective_server_count > current
    THEN effective_server_count ELSE current

\* lines 105-135: the echo of a sequence not yet received
RecordEcho(m, s, server_count, receive_time) ==
    LET reset == ServerReset(m, server_count)
        offset == IF reset
                  THEN m.server_received_offset + m.last_seen_server_count
                  ELSE m.server_received_offset
        effective_server_count == offset + server_count
        m1 == [m EXCEPT !.received_seqs = @ \cup {s},
                        !.last_rcvd_time = receive_time,
                        !.server_received_offset = offset,
                        !.sync_lost = @ \/ reset,
                        !.last_seen_server_count = server_count,
                        !.server_received =
                            ServerReceived(@, effective_server_count)]
        sent_time == SentTime(m, s)
    IN IF sent_time = <<>> THEN m1
       ELSE
         LET transit_time == receive_time - sent_time[1]
         IN [m1 EXCEPT !.rtts = Append(@, transit_time),
                       !.jitter =
                           IF m.last_transit_time # <<>>
                           THEN JitterUpdate(@,
                                  Abs(transit_time - m.last_transit_time[1]))
                           ELSE @,
                       !.last_transit_time = <<transit_time>>]

\* record_receive without the test for a sequence already received
record_receive_unguarded(m, s, server_count, receive_time) ==
    RecordEcho(m, s, server_count, receive_time)

\* lines 100-135
record_receive(m, s, server_count, receive_time) ==
    IF s \in m.received_seqs THEN m
    ELSE RecordEcho(m, s, server_count, receive_time)

\* ------------------------------------------------------------ get_stats
\* the copies taken inside the lock (lines 138-164)
StatsCopy(m) ==
    [ sent_seqs |-> m.sent_seqs,
      received_seqs |-> m.received_seqs,
      sent_times |-> m.sent_times,
      server_received |-> m.server_received,
      last_rcvd_time |-> m.last_rcvd_time,
      max_blackout |-> m.max_blackout,
      rtts |-> m.rtts,
      jitter |-> m.jitter,
      tx_attempts |-> m.tx_attempts,
      tx_errors |-> m.tx_errors,
      seq |-> IF m.sent_seqs # {} THEN MaxOfSet(m.sent_seqs) ELSE 0 ]

\* self.interval = 1.0 / rate, in milliseconds (the rates used divide 1000)
IntervalMs(r) == 1000 \div r

\* the threshold as the fixed floor only
ThresholdMs_floorOnly(r) == ThresholdFloorMs

\* threshold_ms = max(100.0, interval * 1500.0)
ThresholdMs(r) == Max(ThresholdFloorMs, (3 * IntervalMs(r)) \div 2)

Outage(c, t, is_running) ==
    (IF is_running THEN t ELSE c.last_rcvd_time) - c.last_rcvd_time

\* a slot that is 0 for every sequence not received, however recent
HistorySlot_noGrace(c, r, t, s) ==
    IF s \in c.received_seqs THEN 1 ELSE 0

\* one slot of the rolling history (lines 175-183); the per-slot threshold
\* max(0.1, interval * 1.5) seconds is the same quantity as threshold_ms
HistorySlot(c, r, t, s) ==
    IF s \in c.received_seqs THEN 1
    ELSE LET sent_at == IF s \in DOMAIN c.sent_times
                        THEN c.sent_times[s] ELSE t
         IN IF t - sent_at > Max(ThresholdFloorMs, (3 * IntervalMs(r)) \div 2)
            THEN 0 ELSE 1

\* the rolling history without the padding of lines 185-186
History_unpadded(c, r, t) ==
    LET history_start == Max(1, c.seq - (HistoryLen - 1))
        n == c.seq + 1 - history_start
    IN [i \in 1..n |-> HistorySlot(c, r, t, history_start + i - 1)]

\* the rolling history padded in front with zeros
History_zeroPadded(c, r, t) ==
    LET history_start == Max(1, c.seq - (HistoryLen - 1))
        n == c.seq + 1 - history_start
        body == [i \in 1..n |-> HistorySlot(c, r, t, history_start + i - 1)]
    IN IF n < HistoryLen
       THEN [i \in 1..(HistoryLen - n) |-> 0] \o body
       ELSE body

\* lines 172-186: the last 100 sequence numbers, padded in front with ones
History(c, r, t) ==
    LET history_start == Max(1, c.seq - (HistoryLen - 1))
        n == c.seq + 1 - history_start
        body == [i \in 1..n |-> HistorySlot(c, r, t, history_start + i - 1)]
    IN IF n < HistoryLen
       THEN [i \in 1..(HistoryLen - n) |-> 1] \o body
       ELSE body

IsBlackout(c, r, t, is_running) ==
    /\ Outage(c, t, is_running) > ThresholdMs(r)
    /\ c.seq > Cardinality(c.received_seqs)

\* the peak reset to 0 by a stopped snapshot of a run without loss
CurrentMax_reset(c, r, t, is_running) ==
    IF ~is_running /\ Cardinality(c.received_seqs) >= c.seq THEN 0
    ELSE IF Outage(c, t, is_running) > ThresholdMs(r)
            /\ c.seq > Cardinality(c.received_seqs)
         THEN Max(c.max_blackout, Outage(c, t, is_running))
         ELSE c.max_blackout

\* lines 193-201: the peak this snapshot reports
CurrentMax(c, r, t, is_running) ==
    IF IsBlackout(c, r, t, is_running)
    THEN Max(c.max_blackout, Outage(c, t, is_running))
    ELSE c.max_blackout

\* lines 203-205
FinalHistory(c, r, t, is_running) ==
    IF ~is_running /\ Cardinality(c.received_seqs) >= c.seq
    THEN [i \in 1..HistoryLen |-> 1]
    ELSE History(c, r, t)

\* lines 213-228
TxLostPackets(c) ==
    LET rcvd == Cardinality(c.received_seqs)
    IN IF c.server_received > 0 /\ c.seq > 0
       THEN IF c.server_received < rcvd THEN 0
            ELSE Max(0, c.seq - c.server_received)
       ELSE c.seq - rcvd

RxLostPackets(c) ==
    LET rcvd == Cardinality(c.received_seqs)
    IN IF c.server_received > 0 /\ c.seq > 0
       THEN IF c.server_received < rcvd THEN c.seq - rcvd
            ELSE Max(0, c.server_received - rcvd)
       ELSE 0

\* round(n / d) as Python rounds, halves to the even neighbour (n >= 0)
RoundHalfEven(n, d) ==
    LET q == n \div d
        r == n % d
    IN IF 2 * r < d THEN q
       ELSE IF 2 * r > d THEN q + 1
       ELSE IF q % 2 = 0 THEN q ELSE q + 1

\* a run that counted every probe as received
LossPct_none(c) == 0

\* lines 207-209, 242: max(0.0, round((1 - rcvd / seq) * 100, 1)), in
\* tenths of a percent
LossPct(c) ==
    LET rcvd == Cardinality(c.received_seqs)
    IN IF c.seq > 0 /\ rcvd < c.seq
       THEN RoundHalfEven(1000 * (c.seq - rcvd), c.seq)
       ELSE 0

\* lines 219, 227, 243: max(0.0, tx_loss_pct), in tenths of a percent
TxLossPct(c) ==
    IF c.server_received > 0 /\ c.seq > 0
    THEN IF TxLostPackets(c) > 0
         THEN RoundHalfEven(1000 * TxLostPackets(c), c.seq) ELSE 0
    ELSE LossPct(c)

\* lines 220, 228, 244: max(0.0, rx_loss_pct), in tenths of a percent
RxLossPct(c) ==
    IF c.server_received > 0 /\ c.seq > 0
    THEN IF RxLostPackets(c) > 0
         THEN RoundHalfEven(1000 * RxLostPackets(c), c.server_received)
         ELSE 0
    ELSE 0

\* lines 230-231: round((lost / rate) * 1000), a whole number for the
\* rates used here
LossMs(lost, r) == IF r > 0 THEN (lost * 1000) \div r ELSE 0

\* the computation outside the lock (lines 166-234) on the copy c with
\* time.time() = t; sync_lost is read later, when the dict is built
ComputeStats(c, r, t, is_running) ==
    [ status |-> IF is_running THEN "running" ELSE "stopped",
      sent |-> c.seq,
      received |-> Cardinality(c.received_seqs),
      server_received |-> c.server_received,
      loss_pct |-> LossPct(c),
      tx_loss_pct |-> TxLossPct(c),
      rx_loss_pct |-> RxLossPct(c),
      tx_lost_packets |-> TxLostPackets(c),
      rx_lost_packets |-> RxLostPackets(c),
      tx_loss_ms |-> LossMs(TxLostPackets(c), r),
      rx_loss_ms |-> LossMs(RxLostPackets(c), r),
      max_blackout_ms |-> CurrentMax(c, r, t, is_running),
      current_blackout_ms |-> IF IsBlackout(c, r, t, is_running)
                              THEN Outage(c, t, is_running) ELSE 0,
      history |-> FinalHistory(c, r, t, is_running),
      tx_attempts |-> c.tx_attempts,
      tx_errors |-> c.tx_errors,
      sent_seqs_size |-> Cardinality(c.sent_seqs),
      taken_at |-> t,
      last_rcvd_time |-> c.last_rcvd_time,
      raises |-> CurrentMax(c, r, t, is_running) > c.max_blackout ]

\* lines 195-196: the unlocked write of self.max_blackout
StoreMaxBlackout(m, st) ==
    IF st.raises THEN [m EXCEPT !.max_blackout = st.max_blackout_ms] ELSE m

\* lines 236-268: the returned dict; sync_lost is read here (line 249)
StatsDict(m, st) ==
    [ status |-> st.status,
      sent |-> st.sent,
      received |-> st.received,
      server_received |-> st.server_received,
      loss_pct |-> st.loss_pct,
      tx_loss_pct |-> st.tx_loss_pct,
      rx_loss_pct |-> st.rx_loss_pct,
      tx_lost_packets |-> st.tx_lost_packets,
      rx_lost_packets |-> st.rx_lost_packets,
      tx_loss_ms |-> st.tx_loss_ms,
      rx_loss_ms |-> st.rx_loss_ms,
      sync_lost |-> m.sync_lost,
      max_blackout_ms |-> st.max_blackout_ms,
      current_blackout_ms |-> st.current_blackout_ms,
      history |-> st.history,
      tx_attempts |-> st.tx_attempts,
      tx_errors |-> st.tx_errors,
      sent_seqs_size |-> st.sent_seqs_size,
      taken_at |-> st.taken_at,
      last_rcvd_time |-> st.last_rcvd_time ]

\* lines 521-522: the sequences listed as missed at the end of the run
Missed(m) == m.sent_seqs \ m.received_seqs

\* the calls whose writes to the aggregator are made inside
\* "with self.lock" (lines 82, 88, 93, 97, 101); get_stats holds the lock
\* for its copies only (lines 138-164)
LockedWrites ==
    {"record_send", "mark_send_failed", "record_send_attempt",
     "record_send_error", "record_receive"}

\* ------------------------------------------------------------- state
Idle == [stage |-> "idle"]

NoSnap ==
    [ status |-> "none", sent |-> 0, received |-> 0, server_received |-> 0,
      loss_pct |-> 0, tx_lost_packets |-> 0, rx_lost_packets |-> 0,
      tx_loss_pct |-> 0, rx_loss_pct |-> 0,
      tx_loss_ms |-> 0, rx_loss_ms |-> 0, sync_lost |-> FALSE,
      max_blackout_ms |-> 0, current_blackout_ms |-> 0,
      history |-> [i \in 1..HistoryLen |-> 1],
      tx_attempts |-> 0, tx_errors |-> 0, sent_seqs_size |-> 0,
      taken_at |-> 0, last_rcvd_time |-> 0 ]

NoPoll == [last_rcvd |-> 0, stable_count |-> 0, wait_start |-> 0]

\* the call made by the step just taken and the dict it returned
Op(name) == [op |-> name, seq |-> 0, cnt |-> 0, dup |-> FALSE, ret |-> NoSnap]

Returned(stats) == [Op("get_stats") EXCEPT !.ret = stats]

\* ------------------------------------------------------ rtp_enhanced.py
\* The voice run: the loop index, the packet count, the keys of sent_times,
\* received_seqs, the frames on their way back (the loop index a frame was
\* sent with and the two bytes of its sequence field) and the position of
\* the main thread.
NoVoice == [i |-> 0, count |-> 0, sent_times |-> {}, received_seqs |-> {},
            wire |-> {}, pc |-> "idle"]

\* the sequence field built from the value modulo 2^16
SeqField_wrapped(v) == <<(v \div 256) % 256, v % 256>>

\* the RTP sequence field, bytes 2-3 of the frame, big-endian; a value the
\* 16 bits cannot hold is not built (<<>>)
SeqField(v) == IF v <= SeqFieldMax THEN <<v \div 256, v % 256>> ELSE <<>>

\* line 271: seq = (data[2] << 8) + data[3]
SeqOfField(f) == f[1] * 256 + f[2]

\* VoiceMetrics.record_send
VoiceRecordSend(v, s) == [v EXCEPT !.sent_times = @ \cup {s}]

\* VoiceMetrics.record_receive: the sequence counted when it is that of a
\* SentRecord not counted before
VoiceRecordReceive(v, s) ==
    IF s \in v.received_seqs THEN v
    ELSE IF s \in v.sent_times
    THEN [v EXCEPT !.received_seqs = @ \cup {s}]
    ELSE v

\* the datagram or the arguments a step worked on, and what it made of them
NoCall == [fn |-> "none", arg |-> <<>>, ret |-> <<>>]

Call(name, arg, ret) == [fn |-> name, arg |-> arg, ret |-> ret]

\* ------------------------------------------------- strings and payloads
\* A string is the sequence of its characters.
Digit == <<"0", "1", "2", "3", "4", "5", "6", "7", "8", "9">>

DigitValue(c) == CHOOSE d \in 0..9 : Digit[d + 1] = c

\* the decimal digits of a natural number, as an f-string formats it
RECURSIVE FormatInt(_)
FormatInt(n) ==
    IF n < 10 THEN <<Digit[n + 1]>>
    ELSE FormatInt(n \div 10) \o <<Digit[(n % 10) + 1]>>

\* str.isdigit(): not empty, digits only
isdigit(str) == Len(str) > 0 /\ \A i \in 1..Len(str) : str[i] \in {Digit[d] : d \in 1..10}

RECURSIVE DigitsValue(_)
DigitsValue(str) ==
    IF Len(str) = 0 THEN 0
    ELSE DigitsValue(SubSeq(str, 1, Len(str) - 1)) * 10
         + DigitValue(str[Len(str)])

\* int(str): <<value>>, or <<>> for the ValueError of a string that is no
\* integer literal (an optional sign, then digits)
ParseInt(str) ==
    IF isdigit(str) THEN <<DigitsValue(str)>>
    ELSE IF Len(str) > 1 /\ str[1] \in {"+", "-"} /\ isdigit(Tail(str))
    THEN <<(IF str[1] = "-" THEN -1 ELSE 1) * DigitsValue(Tail(str))>>
    ELSE <<>>

\* str.split(":")
RECURSIVE split(_)
split(str) ==
    IF \A i \in 1..Len(str) : str[i] # ":" THEN <<str>>
    ELSE LET i == CHOOSE i \in 1..Len(str) :
                     str[i] = ":" /\ \A j \in 1..(i - 1) : str[j] # ":"
         IN <<SubSeq(str, 1, i - 1)>> \o split(SubSeq(str, i + 1, Len(str)))

\* the repr of a time of t milliseconds in seconds: the integer part, a
\* point, the thousandths without their trailing zeros
FormatTime(t) ==
    LET ms == t % 1000
        frac == IF ms = 0 THEN <<"0">>
                ELSE IF ms % 100 = 0 THEN FormatInt(ms \div 100)
                ELSE IF ms % 10 = 0
                THEN <<Digit[(ms \div 100) + 1], Digit[((ms \div 10) % 10) + 1]>>
                ELSE <<Digit[(ms \div 100) + 1], Digit[((ms \div 10) % 10) + 1],
                       Digit[(ms % 10) + 1]>>
    IN FormatInt(t \div 1000) \o <<".">> \o frac

Tag == <<"C", "O", "N", "V">>

\* line 434: f"CONV:{log_id}:{label}:{seq}:{now}"
Payload(log_id, label, s, t) ==
    Tag \o <<":">> \o log_id \o <<":">> \o label \o <<":">>
        \o FormatInt(s) \o <<":">> \o FormatTime(t)

\* echo_server.py line 83: data + f":S{packet_count}"
EchoPayload(data, n) == data \o <<":", "S">> \o FormatInt(n)

\* lines 283-286: the first part that is an S followed by digits, else 0
RECURSIVE ServerCount(_)
ServerCount(parts) ==
    IF Len(parts) = 0 THEN 0
    ELSE LET part == Head(parts)
         IN IF Len(part) > 0 /\ part[1] = "S" /\ isdigit(Tail(part))
            THEN DigitsValue(Tail(part))
            ELSE ServerCount(Tail(parts))

\* lines 278-289: <<seq, server_count>> of a probe echo, <<>> for a
\* datagram that is dropped (too few parts, another tag, or the
\* ValueError of int(parts[3]) caught at line 288)
Decode(data) ==
    LET parts == split(data)
    IN IF Len(parts) >= 4 /\ parts[1] = Tag
       THEN IF ParseInt(parts[4]) = <<>> THEN <<>>
            ELSE <<ParseInt(parts[4])[1], ServerCount(parts)>>
       ELSE <<>>

\* ------------------------------------------- __main__: ramp and pacing
\* The send loop keeps its own times in microseconds and its rate in
\* thousandths of a packet per second.
\* line 399 (next_send = time.time()), no tick taken yet
InitPace == [next_send |-> 0, at |-> 0, rate |-> 0, interval |-> 0,
             burst |-> 0]

\* lines 424-429: current_rate at elapsed microseconds after ramp_start
CurrentRate(target_rate, elapsed) ==
    IF elapsed < RampMs * 1000
    THEN Max(RateFloor * 1000, (target_rate * elapsed) \div RampMs)
    ELSE target_rate * 1000

\* line 431: interval = 1.0 / current_rate
IntervalUs(current_rate) == 1000000000 \div current_rate

\* the schedule never reset
Pacing_noReset(next_send, interval, t) ==
    LET next == next_send + interval
    IN IF next - t > 0 THEN [next_send |-> next, at |-> next, slept |-> TRUE]
       ELSE [next_send |-> next, at |-> t, slept |-> FALSE]

\* lines 450-455: the schedule advanced, the sleep up to it, the reset; t is
\* time.time() at line 451
Pacing(next_send, interval, t) ==
    LET next == next_send + interval
    IN IF next - t > 0 THEN [next_send |-> next, at |-> next, slept |-> TRUE]
       ELSE IF t - next > ResetLagUs
       THEN [next_send |-> t, at |-> t, slept |-> FALSE]
       ELSE [next_send |-> next, at |-> t, slept |-> FALSE]

\* ------------------------------------------------ echo_server.py
\* the ports of the default --ports, one handle_port thread each
Ports == {6100, 6200}

\* A datagram is a convergence probe (CONV:ID:LABEL:SEQ:TS) of the one
\* test or a voice packet of the one caller; k tells the datagrams apart.
\* line 58: the test id for a convergence probe, the address otherwise
SessionKey(kind) == IF kind = "conv" THEN "id" ELSE "addr"

HandlerIdle == [stage |-> "recv"]

\* lines 128-139: no session, every port thread in recvfrom
InitServer ==
    /\ active_sessions = <<>>
    /\ hloc = [p \in Ports |-> HandlerIdle]
    /\ echoes = <<>>

\* the datagrams received so far
Arrived ==
    Len(echoes) + Cardinality({p \in Ports : hloc[p].stage # "recv"})

\* lines 70-77: the session of the key, a new one when there is none,
\* counted once more
Counted(sessions, key, t) ==
    LET session == IF key \in DOMAIN sessions THEN sessions[key]
                   ELSE [packet_count |-> 0, start_time |-> t,
                         last_seen |-> t]
    IN [session EXCEPT !.last_seen = t, !.packet_count = @ + 1]

\* lines 30-77: a datagram received and parsed, its session counted
\* under the lock
HandleCount(p, kind) ==
    /\ hloc[p].stage = "recv"
    /\ Arrived < MaxDatagrams
    /\ LET key == SessionKey(kind)
           session == Counted(active_sessions, key, now)
       IN /\ active_sessions' =
                [k \in DOMAIN active_sessions \cup {key} |->
                    IF k = key THEN session ELSE active_sessions[k]]
          /\ hloc' = [hloc EXCEPT ![p] =
                [stage |-> "counted", kind |-> kind, k |-> Arrived + 1,
                 key |-> key, start_time |-> session.start_time]]
    /\ UNCHANGED <<echoes, now, orch, call, voice>>

\* line 83: data + ":S<packet_count>", the count read from the session
\* after the lock was released
HandleBuild(p) ==
    /\ hloc[p].stage = "counted"
    /\ hloc[p].kind = "conv"
    /\ hloc' = [hloc EXCEPT ![p] =
          [stage |-> "built", kind |-> hloc[p].kind, k |-> hloc[p].k,
           key |-> hloc[p].key, start_time |-> hloc[p].start_time,
           n |-> active_sessions[hloc[p].key].packet_count]]
    /\ UNCHANGED <<active_sessions, echoes, now, orch, call, voice>>

\* line 84: s.sendto(echo_payload, addr)
HandleSendConv(p) ==
    /\ hloc[p].stage = "built"
    /\ echoes' = Append(echoes,
          [kind |-> "conv", k |-> hloc[p].k, key |-> hloc[p].key,
           start_time |-> hloc[p].start_time, suffix |-> <<hloc[p].n>>])
    /\ hloc' = [hloc EXCEPT ![p] = HandlerIdle]
    /\ UNCHANGED <<active_sessions, now, orch, call, voice>>

\* line 88: s.sendto(data, addr)
HandleSendVoice(p) ==
    /\ hloc[p].stage = "counted"
    /\ hloc[p].kind = "voice"
    /\ echoes' = Append(echoes,
          [kind |-> "voice", k |-> hloc[p].k, key |-> hloc[p].key,
           start_time |-> hloc[p].start_time, suffix |-> <<>>])
    /\ hloc' = [hloc EXCEPT ![p] = HandlerIdle]
    /\ UNCHANGED <<active_sessions, now, orch, call, voice>>

\* lines 97-118, after a time without datagrams longer than the expiry:
\* every session was last seen more than 60 s ago and is removed.  (A
\* port thread ends its iteration long before its session expires.)
maintenance ==
    /\ \A p \in Ports : hloc[p].stage = "recv"
    /\ DOMAIN active_sessions # {}
    /\ Arrived < MaxDatagrams
    /\ now' = now + SessionExpiryMs + 1000
    /\ active_sessions' = <<>>
    /\ UNCHANGED <<hloc, echoes, orch, call, voice>>

handle_port(p) ==
    \/ \E kind \in {"conv", "voice"} : HandleCount(p, kind)
    \/ HandleBuild(p)
    \/ HandleSendConv(p)
    \/ HandleSendVoice(p)

\* lines 402-406: the end of a run of fixed duration, None when unlimited
TestEndTime(ramp_start, duration) ==
    IF duration > 0 THEN <<ramp_start + RampMs + duration * 1000>> ELSE <<>>

\* line 420: test_end_time is not None and now >= test_end_time
TimedOut(end_time, t) == IF end_time = <<>> THEN FALSE ELSE t >= end_time[1]

InitArgs(rates, durations) ==
    /\ metrics = InitMetrics
    /\ rate \in rates
    /\ \E duration \in durations : test_end_time = TestEndTime(0, duration)
    /\ now = 0
    /\ seq = 0
    /\ pc = "loop"
    /\ stop_event = FALSE
    /\ graceful_shutdown = FALSE
    /\ rpc = "recv"
    /\ ppc = "check"
    /\ mloc = Idle
    /\ ploc = Idle
    /\ poll = NoPoll
    /\ sink = "none"
    /\ lastOp = Op("init")
    /\ InitServer
    /\ pace = InitPace
    /\ voice = NoVoice
    /\ call = NoCall

InitWith(rates) == InitArgs(rates, {DefaultDuration})

\* time.time() advances, up to the horizon of ticks steps of TickMs
Tick(ticks) ==
    /\ now < ticks * TickMs
    /\ now' = now + TickMs
    /\ lastOp' = Op("tick")
    /\ UNCHANGED <<metrics, rate, test_end_time, seq, pc, stop_event, graceful_shutdown,
                   rpc, ppc, mloc, ploc, poll, sink,
                   server, call, pace, voice>>

\* time.time() advances by ms at a time, up to the horizon
Elapse(ms, horizon) ==
    /\ now < horizon
    /\ now' = now + ms
    /\ lastOp' = Op("tick")
    /\ UNCHANGED <<metrics, rate, test_end_time, seq, pc, stop_event,
                   graceful_shutdown, rpc, ppc, mloc, ploc, poll, sink,
                   server, call, pace, voice>>

\* the default disposition of the signal: the process ends at once
signal_handler_default ==
    /\ pc # "done"
    /\ pc' = "done"
    /\ lastOp' = Op("signal")
    /\ UNCHANGED <<metrics, rate, test_end_time, now, seq, stop_event,
                   graceful_shutdown, rpc, ppc, mloc, ploc, poll, sink,
                   server, call, pace, voice>>

\* signal_handler (SIGINT, SIGTERM, SIGHUP)
signal_handler ==
    /\ pc # "done"
    /\ graceful_shutdown' = TRUE
    /\ lastOp' = Op("signal")
    /\ UNCHANGED <<metrics, rate, test_end_time, now, seq, pc, stop_event,
                   rpc, ppc, mloc, ploc, poll, sink,
                   server, call, pace, voice>>

\* ---------------------------------------------------- __main__: sender
\* the sequence recorded before it is incremented
SendRecord_postIncrement ==
    /\ pc = "loop"
    /\ ~stop_event /\ ~graceful_shutdown
    /\ ~TimedOut(test_end_time, now)
    /\ seq < MaxSeq
    /\ seq' = seq + 1
    /\ metrics' = record_send(metrics, seq, now)
    /\ pc' = "attempt"
    /\ lastOp' = [Op("record_send") EXCEPT !.seq = seq]
    /\ UNCHANGED <<rate, test_end_time, now, stop_event, graceful_shutdown,
                   rpc, ppc, mloc, ploc, poll, sink,
                   server, call, pace, voice>>

\* lines 409-436: loop test, seq += 1, metrics.record_send(seq, now)
SendRecord ==
    /\ pc = "loop"
    /\ ~stop_event /\ ~graceful_shutdown
    /\ ~TimedOut(test_end_time, now)
    /\ seq < MaxSeq
    /\ seq' = seq + 1
    /\ metrics' = record_send(metrics, seq + 1, now)
    /\ pc' = "attempt"
    /\ lastOp' = [Op("record_send") EXCEPT !.seq = seq + 1]
    /\ UNCHANGED <<rate, test_end_time, now, stop_event, graceful_shutdown,
                   rpc, ppc, mloc, ploc, poll, sink,
                   server, call, pace, voice>>

\* line 437
SendAttempt ==
    /\ pc = "attempt"
    /\ metrics' = record_send_attempt(metrics)
    /\ pc' = "sendto"
    /\ lastOp' = Op("record_send_attempt")
    /\ UNCHANGED <<rate, test_end_time, now, seq, stop_event, graceful_shutdown,
                   rpc, ppc, mloc, ploc, poll, sink,
                   server, call, pace, voice>>

\* lines 439, 450-455: sendto succeeded, pacing sleep
SendOk ==
    /\ pc = "sendto"
    /\ pc' = "loop"
    /\ lastOp' = Op("sendto")
    /\ UNCHANGED <<metrics, rate, test_end_time, now, seq, stop_event, graceful_shutdown,
                   rpc, ppc, mloc, ploc, poll, sink,
                   server, call, pace, voice>>

\* lines 440-441: sendto raised, metrics.record_send_error()
SendError ==
    /\ pc = "sendto"
    /\ metrics' = record_send_error(metrics)
    /\ pc' = "failed"
    /\ lastOp' = Op("record_send_error")
    /\ UNCHANGED <<rate, test_end_time, now, seq, stop_event, graceful_shutdown,
                   rpc, ppc, mloc, ploc, poll, sink,
                   server, call, pace, voice>>

\* the failed sequence dropped and the loop continued
SendFailed_continue ==
    /\ pc = "failed"
    /\ metrics' = mark_send_failed(metrics, seq)
    /\ pc' = "loop"
    /\ lastOp' = [Op("mark_send_failed") EXCEPT !.seq = seq]
    /\ UNCHANGED <<rate, test_end_time, now, seq, stop_event, graceful_shutdown,
                   rpc, ppc, mloc, ploc, poll, sink,
                   server, call, pace, voice>>

\* lines 444-445: metrics.mark_send_failed(seq); break
SendFailed ==
    /\ pc = "failed"
    /\ metrics' = mark_send_failed(metrics, seq)
    /\ pc' = "finally"
    /\ lastOp' = [Op("mark_send_failed") EXCEPT !.seq = seq]
    /\ UNCHANGED <<rate, test_end_time, now, seq, stop_event, graceful_shutdown,
                   rpc, ppc, mloc, ploc, poll, sink,
                   server, call, pace, voice>>

\* lines 409-417: the loop ends on the stop flag or the signal flag
SenderExit ==
    /\ pc = "loop"
    /\ stop_event \/ graceful_shutdown
    /\ pc' = "finally"
    /\ lastOp' = Op("sender_exit")
    /\ UNCHANGED <<metrics, rate, test_end_time, now, seq, stop_event, graceful_shutdown,
                   rpc, ppc, mloc, ploc, poll, sink,
                   server, call, pace, voice>>

\* the process ended at the timeout, the finally block left out
SenderTimeout_noFinally ==
    /\ pc = "loop"
    /\ ~stop_event /\ ~graceful_shutdown
    /\ TimedOut(test_end_time, now)
    /\ pc' = "done"
    /\ lastOp' = Op("sender_timeout")
    /\ UNCHANGED <<metrics, rate, test_end_time, now, seq, stop_event,
                   graceful_shutdown, rpc, ppc, mloc, ploc, poll, sink,
                   server, call, pace, voice>>

\* lines 420-422: the loop ends when the fixed duration has elapsed
SenderTimeout ==
    /\ pc = "loop"
    /\ ~stop_event /\ ~graceful_shutdown
    /\ TimedOut(test_end_time, now)
    /\ pc' = "finally"
    /\ lastOp' = Op("sender_timeout")
    /\ UNCHANGED <<metrics, rate, test_end_time, now, seq, stop_event,
                   graceful_shutdown, rpc, ppc, mloc, ploc, poll, sink,
                   server, call, pace, voice>>

\* get_stats run without interruption: the locked copy, the computation
\* at time t, the store of max_blackout and the returned dict
get_stats(m, r, t, is_running) ==
    LET st == ComputeStats(StatsCopy(m), r, t, is_running)
    IN [m |-> StoreMaxBlackout(m, st), stats |-> StatsDict(m, st)]

\* ------------------------------------------ __main__: shutdown sequence
\* the threads told to stop before the grace period
RunningStatsWith_stopFirst(st) ==
    /\ pc = "finally"
    /\ metrics' = StoreMaxBlackout(metrics, st)
    /\ poll' = [last_rcvd |-> st.received, stable_count |-> 0,
                wait_start |-> 0]
    /\ mloc' = Idle
    /\ pc' = "grace"
    /\ stop_event' = TRUE
    /\ lastOp' = Returned(StatsDict(metrics, st))
    /\ UNCHANGED <<rate, test_end_time, now, seq, graceful_shutdown,
                   rpc, ppc, ploc, sink,
                   server, call, pace, voice>>

\* line 463: running_stats = metrics.get_stats(is_running=True);
\* line 482: last_rcvd = running_stats["received"]
RunningStatsWith(st) ==
    /\ pc = "finally"
    /\ metrics' = StoreMaxBlackout(metrics, st)
    /\ poll' = [last_rcvd |-> st.received, stable_count |-> 0,
                wait_start |-> 0]
    /\ mloc' = Idle
    /\ pc' = "grace"
    /\ lastOp' = Returned(StatsDict(metrics, st))
    /\ UNCHANGED <<rate, test_end_time, now, seq, stop_event, graceful_shutdown,
                   rpc, ppc, ploc, sink,
                   server, call, pace, voice>>

\* lines 474-484: grace sleep, stop_event.set(), wait_start = time.time()
GraceEndAfter(slept_ms) ==
    /\ pc = "grace"
    /\ stop_event' = TRUE
    /\ now' = now + slept_ms
    /\ poll' = [poll EXCEPT !.wait_start = now + slept_ms]
    /\ pc' = "poll_check"
    /\ lastOp' = Op("stop_event_set")
    /\ UNCHANGED <<metrics, rate, test_end_time, seq, graceful_shutdown,
                   rpc, ppc, mloc, ploc, sink,
                   server, call, pace, voice>>

\* the same with the clock standing still
GraceEnd == GraceEndAfter(0)

\* the grace period of the rates below 1000 pps at every rate
GraceMs_lowOnly(avg_rtt_ms, r) ==
    LET rtt == IF avg_rtt_ms = 0 THEN 20 ELSE avg_rtt_ms
    IN Max(2000, IF 5000 < rtt * 15 THEN 5000 ELSE rtt * 15)

\* lines 466-469: the grace period for the average RTT of the first
\* snapshot, 20.0 standing in for an average of 0
GraceMs(avg_rtt_ms, r) ==
    LET rtt == IF avg_rtt_ms = 0 THEN 20 ELSE avg_rtt_ms
    IN IF r >= 1000
       THEN Max(3000, IF 7000 < rtt * 20 THEN 7000 ELSE rtt * 20)
       ELSE Max(2000, IF 5000 < rtt * 15 THEN 5000 ELSE rtt * 15)

\* lines 474-484 of a run without any echo (avg_rtt_ms = 0.0): the grace
\* sleep, stop_event.set() and the sleep of 0.3 s
GraceEndSilent == GraceEndAfter(GraceMs(0, rate) + StopSleepMs)

\* the poll loop without the limit of 1 s
PollCheck_noLimit ==
    /\ pc = "poll_check"
    /\ pc' = "poll"
    /\ lastOp' = Op("poll_check")
    /\ UNCHANGED <<metrics, rate, test_end_time, now, seq, stop_event,
                   graceful_shutdown, rpc, ppc, mloc, ploc, poll, sink,
                   server, call, pace, voice>>

\* line 486: while time.time() - wait_start < 1.0
PollCheck ==
    /\ pc = "poll_check"
    /\ pc' = IF now - poll.wait_start < 1000 THEN "poll" ELSE "final"
    /\ lastOp' = Op("poll_check")
    /\ UNCHANGED <<metrics, rate, test_end_time, now, seq, stop_event, graceful_shutdown,
                   rpc, ppc, mloc, ploc, poll, sink,
                   server, call, pace, voice>>

\* lines 488-500: stats_now = metrics.get_stats(is_running=False)
PollStatsWith(st) ==
    /\ pc = "poll"
    /\ metrics' = StoreMaxBlackout(metrics, st)
    /\ LET progressed == st.received > poll.last_rcvd
           stable == IF progressed THEN 0 ELSE poll.stable_count + 1
       IN /\ poll' = [poll EXCEPT
                        !.last_rcvd = IF progressed THEN st.received ELSE @,
                        !.stable_count = stable]
          /\ pc' = IF stable >= 3 THEN "final" ELSE "poll_check"
    /\ mloc' = Idle
    /\ lastOp' = Returned(StatsDict(metrics, st))
    /\ UNCHANGED <<rate, test_end_time, now, seq, stop_event, graceful_shutdown,
                   rpc, ppc, ploc, sink,
                   server, call, pace, voice>>

\* lines 509-514: final_stats = metrics.get_stats(is_running=False),
\* written to the stats file
FinalStatsWith(st) ==
    /\ pc = "final"
    /\ metrics' = StoreMaxBlackout(metrics, st)
    /\ sink' = st.status
    /\ mloc' = Idle
    /\ pc' = "done"
    /\ lastOp' = Returned(StatsDict(metrics, st))
    /\ UNCHANGED <<rate, test_end_time, now, seq, stop_event, graceful_shutdown,
                   rpc, ppc, ploc, poll,
                   server, call, pace, voice>>

RunningStats ==
    mloc = Idle /\ RunningStatsWith(ComputeStats(StatsCopy(metrics), rate, now, TRUE))

PollStats ==
    mloc = Idle /\ PollStatsWith(ComputeStats(StatsCopy(metrics), rate, now, FALSE))

FinalStats ==
    mloc = Idle /\ FinalStatsWith(ComputeStats(StatsCopy(metrics), rate, now, FALSE))

\* ------------------------------------------------------ receiver_thread
\* lines 273-287: a datagram CONV:..:s[:S<cnt>] is decoded and recorded,
\* then the loop tests stop_event
receiver_thread(s, cnt) ==
    /\ rpc = "recv"
    /\ metrics' = record_receive(metrics, s, cnt, now)
    /\ rpc' = IF stop_event THEN "done" ELSE "recv"
    /\ lastOp' = [Op("record_receive") EXCEPT !.seq = s, !.cnt = cnt,
                      !.dup = s \in metrics.received_seqs]
    /\ UNCHANGED <<rate, test_end_time, now, seq, pc, stop_event, graceful_shutdown,
                   ppc, mloc, ploc, poll, sink,
                   server, call, pace, voice>>

\* lines 273, 290-291: socket.timeout, then the loop test finds stop_event
ReceiverStop ==
    /\ rpc = "recv"
    /\ stop_event
    /\ rpc' = "done"
    /\ lastOp' = Op("receiver_stop")
    /\ UNCHANGED <<metrics, rate, test_end_time, now, seq, pc, stop_event, graceful_shutdown,
                   ppc, mloc, ploc, poll, sink,
                   server, call, pace, voice>>

\* datagrams that are no probe echo: an empty one, another sender's text,
\* a probe cut off before its sequence field, a sequence field that is no
\* number, another tag
Malformed ==
    { <<>>,
      <<"x">>,
      Tag \o <<":", "I", ":", "L">>,
      Tag \o <<":", "I", ":", "L", ":">>,
      Tag \o <<":", "I", ":", "L", ":", "x", ":", "0", ".", "0">>,
      <<"P">> \o Payload(<<"I">>, <<"L">>, 1, 0) }

\* lines 275-289: a datagram received and decoded; record_receive is
\* called for a probe echo only
receiver_recvfrom(data) ==
    /\ rpc = "recv"
    /\ LET d == Decode(data)
       IN /\ metrics' = IF d = <<>> THEN metrics
                        ELSE record_receive(metrics, d[1], d[2], now)
          /\ call' = Call("recvfrom", data, d)
          /\ lastOp' = IF d = <<>> THEN Op("discard")
                       ELSE [Op("record_receive") EXCEPT !.seq = d[1],
                                !.cnt = d[2],
                                !.dup = d[1] \in metrics.received_seqs]
    /\ rpc' = IF stop_event THEN "done" ELSE "recv"
    /\ UNCHANGED <<rate, test_end_time, now, seq, pc, stop_event,
                   graceful_shutdown, ppc, mloc, ploc, poll, sink, server, pace, voice>>

\* lines 292-293: recvfrom raises an exception other than socket.timeout
\* and the loop is left
receiver_error ==
    /\ rpc = "recv"
    /\ rpc' = "done"
    /\ call' = Call("recvfrom", <<>>, <<"Exception">>)
    /\ lastOp' = Op("receive_error")
    /\ UNCHANGED <<metrics, rate, test_end_time, now, seq, pc, stop_event,
                   graceful_shutdown, ppc, mloc, ploc, poll, sink, server, pace, voice>>

\* --------------------------------------------------- stats_writer_thread
\* lines 297-304, one iteration without interruption: get_stats, json.dump
stats_writer_thread ==
    /\ ppc = "check"
    /\ ploc = Idle
    /\ ~stop_event
    /\ LET stats == get_stats(metrics, rate, now, TRUE)
       IN /\ metrics' = stats.m
          /\ sink' = stats.stats.status
          /\ lastOp' = Returned(stats.stats)
    /\ UNCHANGED <<rate, test_end_time, now, seq, pc, stop_event, graceful_shutdown,
                   rpc, ppc, mloc, ploc, poll,
                   server, call, pace, voice>>

\* line 297: the loop test finds stop_event set
WriterStop ==
    /\ ppc = "check"
    /\ ploc = Idle
    /\ stop_event
    /\ ppc' = "done"
    /\ lastOp' = Op("writer_stop")
    /\ UNCHANGED <<metrics, rate, test_end_time, now, seq, pc, stop_event, graceful_shutdown,
                   rpc, mloc, ploc, poll, sink,
                   server, call, pace, voice>>

\* ------------------------------------------------------- specification
\* the send loop of __main__
Sender ==
    \/ SendRecord
    \/ SendAttempt
    \/ SendOk
    \/ SendError
    \/ SendFailed
    \/ SenderExit

\* the finally block of __main__
Finally ==
    \/ RunningStats
    \/ GraceEnd
    \/ PollCheck
    \/ PollStats
    \/ FinalStats

\* the loop exits of the two threads
ThreadExits ==
    \/ ReceiverStop
    \/ WriterStop

\* The run at the default rate up to the finally block: the sender loop,
\* the receiver and the stats writer under a clock that advances, each
\* method of the aggregator running without interruption.
Init == InitWith({DefaultRate})

Next ==
    \/ Tick(MaxTicks)
    \/ signal_handler
    \/ Sender
    \/ stats_writer_thread
    \/ \E s \in RecvSeqs, cnt \in EchoCounts : receiver_thread(s, cnt)

Spec == Init /\ [][Next]_vars

\* The whole run with the clock standing still and the full range of
\* server counts: the loss accounting and the resynchronisation.  (The
\* exits of the two threads change rpc and ppc only.)
InitCount == InitWith({DefaultRate})

NextCount ==
    \/ signal_handler
    \/ Sender
    \/ stats_writer_thread
    \/ Finally
    \/ \E s \in RecvSeqs, cnt \in ServerCounts : receiver_thread(s, cnt)

SpecCount == InitCount /\ [][NextCount]_vars

\* The whole run with the exits of the two threads, the clock standing
\* still and echoes without server count.  The main thread keeps running:
\* its sleeps are finite and the signal handler only sets a flag, so the
\* send loop and the finally block are weakly fair.  Signals and send
\* failures come from outside and need not happen.
InitLife == InitWith({DefaultRate})

NextLife ==
    \/ signal_handler
    \/ Sender
    \/ stats_writer_thread
    \/ Finally
    \/ ThreadExits
    \/ \E s \in RecvSeqs : receiver_thread(s, 0)

SpecLife ==
    InitLife /\ [][NextLife]_vars /\ WF_vars(Sender) /\ WF_vars(Finally)

\* The program before any of its threads runs; only the call changes.
Parked ==
    /\ metrics = InitMetrics
    /\ rate = DefaultRate
    /\ test_end_time = TestEndTime(0, DefaultDuration)
    /\ now = 0
    /\ seq = 0
    /\ pc = "loop"
    /\ stop_event = FALSE
    /\ graceful_shutdown = FALSE
    /\ rpc = "recv"
    /\ ppc = "check"
    /\ mloc = Idle
    /\ ploc = Idle
    /\ poll = NoPoll
    /\ sink = "none"
    /\ lastOp = Op("init")
    /\ InitServer
    /\ pace = InitPace

\* a function applied to the arguments drawn at the start
Apply(name, ret) ==
    /\ call.fn = "args"
    /\ call' = Call(name, call.arg, ret)
    /\ UNCHANGED <<now, orch, server, voice>>

\* ------------------------------------------- rtp_enhanced.calculate_mos
\* Milliseconds and percent are integers, R is counted in tenths, and the
\* MOS above 1 in units of 7e-9: on the inputs of MosInputs every
\* quantity of the function is a whole number of its unit.
effective_latency(avg_rtt, jitter) == avg_rtt + (jitter * 2) + 10

\* lines 187-190, in tenths
id_factor(latency) ==
    IF latency < 160 THEN 0
    ELSE (24 * latency + 110 * (latency - 160)) \div 100

\* lines 193-194, in tenths
loss_factor(loss_pct) ==
    IF loss_pct > 0 THEN (250 * loss_pct) \div (10 + loss_pct) ELSE 0

\* lines 197-198, in tenths: the sum, then max(0, min(100, r_factor))
r_factor(avg_rtt, jitter, loss_pct, ie_factor) ==
    LET r == 932 - id_factor(effective_latency(avg_rtt, jitter))
                 - 10 * ie_factor - loss_factor(loss_pct)
    IN Max(0, IF 1000 < r THEN 1000 ELSE r)

\* lines 201-206: mos - 1 in units of 7e-9, from R in tenths:
\* 0.035 R + 7e-6 R (R - 60)(100 - R) = 7e-9 r (500000 + (r - 600)(1000 - r))
MosOfR(r) ==
    IF r < 0 THEN 0
    ELSE IF r > 1000 THEN 500000000
    ELSE r * (500000 + (r - 600) * (1000 - r))

\* the score as it is computed
ClampMos_none(y) == y

\* line 208: max(1.0, min(4.5, mos))
ClampMos(y) == Max(0, IF 500000000 < y THEN 500000000 ELSE y)

\* line 208: round(mos, 2) in hundredths, 7 y / 10^7 being split so that
\* no product leaves the 32-bit range
RoundMos(y) ==
    LET a == y \div 10000
        b == y % 10000
        t == 7 * a + ((7 * b) \div 10000)
        f == (t % 1000) * 10000 + ((7 * b) % 10000)
        q == t \div 1000
    IN 100 + (IF 2 * f > 10000000 THEN q + 1
              ELSE IF 2 * f < 10000000 THEN q
              ELSE IF q % 2 = 0 THEN q ELSE q + 1)

\* <<R in tenths, MOS in hundredths>>
calculate_mos(avg_rtt, jitter, loss_pct, ie_factor) ==
    LET r == r_factor(avg_rtt, jitter, loss_pct, ie_factor)
    IN <<r, RoundMos(ClampMos(MosOfR(r)))>>

\* round trip times, jitters, loss percentages and equipment impairments
\* from none to far beyond a usable call, kept to those for which R is a
\* whole number of tenths
MosInputs ==
    {in \in {0, 20, 90, 140, 190, 290, 490, 3990} \X {0, 2, 25, 50}
                \X {-5, 0, 10, 15, 40, 90} \X {-10, 0, 11, 50, 100} :
        LET latency == effective_latency(in[1], in[2])
        IN latency < 160 \/ latency % 50 = 0}

InitMos ==
    /\ Parked
    /\ voice = NoVoice
    /\ \E in \in MosInputs : call = Call("args", in, <<>>)

NextMos ==
    Apply("calculate_mos",
          calculate_mos(call.arg[1], call.arg[2], call.arg[3], call.arg[4]))

SpecMos == InitMos /\ [][NextMos]_vars

\* --------------------------------------------- the source port (__main__)
\* the characters of "CONV-"
ConvPrefix == <<"C", "O", "N", "V", "-">>

\* str.split(" (")[0]: the string up to the first " (", all of it when
\* there is none
RECURSIVE BeforeLabel(_)
BeforeLabel(str) ==
    IF Len(str) < 2 THEN str
    ELSE IF str[1] = " " /\ str[2] = "(" THEN <<>>
    ELSE <<Head(str)>> \o BeforeLabel(Tail(str))

\* lines 337-346: the number of the test, 0 for an id of another form
TestNum(id) ==
    LET id_part == BeforeLabel(id)
    IN IF /\ Len(id_part) >= 5
          /\ SubSeq(id_part, 1, 5) = ConvPrefix
          /\ isdigit(SubSeq(id_part, 6, Len(id_part)))
       THEN DigitsValue(SubSeq(id_part, 6, Len(id_part)))
       ELSE 0

\* the port without the cyclic mapping
SourcePort_noWrap(test_num) == 30000 + test_num

\* line 349: source_port = 30000 + (test_num % 10000)
SourcePort(test_num) == 30000 + (test_num % 10000)

\* line 369: random.randrange(40000, 60000)
FallbackPorts == 40000..59999

\* the numbers of the tests, and ids of other forms
PortNums == {0, 1, 9999, 10000, 10001, 29999}

ConvId(n) == ConvPrefix \o FormatInt(n)

PortIds ==
    {ConvId(n) : n \in PortNums}
        \cup {ConvPrefix \o <<"0", "0", "7">>,
              ConvId(1) \o <<" ", "(", "L", ")">>,
              <<"T", "-", "1">>,
              ConvPrefix \o <<"x">>}

\* lines 337-349
DerivePort ==
    /\ call.fn = "args"
    /\ call' = Call("source_port", call.arg, <<SourcePort(TestNum(call.arg))>>)
    /\ UNCHANGED <<now, orch, server, voice>>

\* lines 361-365: sock.bind succeeds
BindOk ==
    /\ call.fn = "source_port"
    /\ call' = Call("bound", call.arg, call.ret)
    /\ UNCHANGED <<now, orch, server, voice>>

\* lines 361-362, 366: sock.bind raises OSError
BindInUse ==
    /\ call.fn = "source_port"
    /\ call' = Call("in_use", call.arg, call.ret)
    /\ UNCHANGED <<now, orch, server, voice>>

\* lines 367-370: a random port is taken and bound
BindFallback ==
    /\ call.fn = "in_use"
    /\ \E port \in FallbackPorts : call' = Call("fallback", call.arg, <<port>>)
    /\ UNCHANGED <<now, orch, server, voice>>

InitPort ==
    /\ Parked
    /\ voice = NoVoice
    /\ \E id \in PortIds : call = Call("args", id, <<>>)

NextPort ==
    \/ DerivePort
    \/ BindOk
    \/ BindInUse
    \/ BindFallback

SpecPort == InitPort /\ [][NextPort]_vars

\* lines 161, 261: get_stats reports self.source_port, the port the
\* constructor was given at line 359, before the socket was bound: the
\* port derived from the identifier.  The step notes the port the socket
\* is bound to and the source_port of the snapshot.
PortSnapshot ==
    /\ call.fn \in {"bound", "fallback"}
    /\ call' = Call("get_stats", call.arg,
                    <<call.ret[1], SourcePort(TestNum(call.arg))>>)
    /\ UNCHANGED <<now, orch, server, voice>>

\* The start of a run up to its first snapshot.
SpecBind == InitPort /\ [][NextPort \/ PortSnapshot]_vars

\* ------------------------------------------------ the probe on the wire
\* line 434: the sender builds the payload
Encode ==
    /\ call.fn = "args"
    /\ call' = Call("payload", call.arg,
                    Payload(call.arg.id, call.arg.label, call.arg.seq,
                            call.arg.t))
    /\ UNCHANGED <<now, orch, server, voice>>

\* echo_server.py lines 80-88: the datagram comes back with the suffix or
\* as it was sent
Reflect ==
    /\ call.fn = "payload"
    /\ call' = Call("echo", call.arg,
                    IF call.arg.count = <<>> THEN call.ret
                    ELSE EchoPayload(call.ret, call.arg.count[1]))
    /\ UNCHANGED <<now, orch, server, voice>>

\* lines 278-287: the receiver decodes the echo
DecodeEcho ==
    /\ call.fn = "echo"
    /\ call' = Call("decoded", call.arg, Decode(call.ret))
    /\ UNCHANGED <<now, orch, server, voice>>

\* ids and labels as --id gives them (lines 351-356: the part before
\* " (" and the part after it without ")"), sequences, send times, and
\* the count the responder appends, none when it reflects the datagram
InitCodec ==
    /\ Parked
    /\ voice = NoVoice
    /\ \E id \in { ConvId(1), <<"S", "7">>, <<"T", "1">> },
          label \in { <<"U", "n", "k", "n", "o", "w", "n">>, <<"L">>,
                      <<"D", "C">>, <<"S", "3">>, <<"a", ":", "b">> },
          s \in {1, 2, 10},
          t \in {0, TickMs},
          count \in { <<>>, <<1>>, <<12>> } :
          call = Call("args",
                      [id |-> id, label |-> label, seq |-> s, t |-> t,
                       count |-> count],
                      <<>>)

NextCodec ==
    \/ Encode
    \/ Reflect
    \/ DecodeEcho

SpecCodec == InitCodec /\ [][NextCodec]_vars

\* lines 409-455, one tick of the send loop that sends: the ramp rate and
\* the interval at the time of the loop test, seq += 1, record_send,
\* record_send_attempt, sendto, then the pacing; d is the time in
\* microseconds from the loop test to line 451
SendPacedWith(d, p) ==
    /\ pc = "loop"
    /\ ~stop_event /\ ~graceful_shutdown
    /\ ~TimedOut(test_end_time, now)
    /\ seq < MaxPaced
    /\ seq' = seq + 1
    /\ metrics' = record_send_attempt(
                      record_send(metrics, seq + 1, pace.at \div 1000))
    /\ pace' = [next_send |-> p.next_send, at |-> p.at,
                rate |-> CurrentRate(rate, pace.at),
                interval |-> IntervalUs(CurrentRate(rate, pace.at)),
                burst |-> IF p.slept THEN 0
                          ELSE IF d > 0 THEN 1 ELSE pace.burst + 1]
    /\ now' = p.at \div 1000
    /\ lastOp' = [Op("sendto") EXCEPT !.seq = seq + 1]
    /\ UNCHANGED <<rate, test_end_time, pc, stop_event, graceful_shutdown,
                   rpc, ppc, mloc, ploc, poll, sink, server, call, voice>>

SendPaced(d) ==
    SendPacedWith(d, Pacing(pace.next_send,
                            IntervalUs(CurrentRate(rate, pace.at)),
                            pace.at + d))

\* lines 487-500, one poll: time.sleep(0.1) that took slept_ms, get_stats,
\* the comparison with last_rcvd, the break at 3 stable polls
PollSleepStats(slept_ms) ==
    /\ pc = "poll"
    /\ mloc = Idle
    /\ now' = now + slept_ms
    /\ LET st == ComputeStats(StatsCopy(metrics), rate, now + slept_ms, FALSE)
           progressed == st.received > poll.last_rcvd
           stable == IF progressed THEN 0 ELSE poll.stable_count + 1
       IN /\ metrics' = StoreMaxBlackout(metrics, st)
          /\ poll' = [poll EXCEPT
                        !.last_rcvd = IF progressed THEN st.received ELSE @,
                        !.stable_count = stable]
          /\ pc' = IF stable >= 3 THEN "final" ELSE "poll_check"
          /\ lastOp' = Returned(StatsDict(metrics, st))
    /\ UNCHANGED <<rate, test_end_time, seq, stop_event, graceful_shutdown,
                   rpc, ppc, mloc, ploc, sink, server, call, pace, voice>>

\* The run with the final RX check under its own clock: the sender, the
\* receiver with echoes up to its exit, the grace sleep, polls whose sleep
\* takes 0.1 s or, on a loaded host, 0.4 s.
NextPoll ==
    \/ signal_handler
    \/ Sender
    \/ \E s \in RecvSeqs : receiver_thread(s, 0)
    \/ ReceiverStop
    \/ RunningStats
    \/ GraceEndAfter(GraceMs(0, rate) + StopSleepMs)
    \/ PollCheck
    \/ \E ms \in {100, 400} : PollSleepStats(ms)
    \/ FinalStats

SpecPoll ==
    /\ InitLife /\ [][NextPoll]_vars
    /\ WF_vars(PollCheck)
    /\ WF_vars(\E ms \in {100, 400} : PollSleepStats(ms))

\* The grace period as a function of the average RTT in ms of the first
\* snapshot (0 without a sample) and of --rate.
InitGrace ==
    /\ Parked
    /\ voice = NoVoice
    /\ \E rtt \in (0..40) \cup {100, 133, 134, 150, 200, 250, 333, 334,
                                350, 400, 1000},
          r \in {5, DefaultRate, 999, 1000, 5000} :
          call = Call("args", <<rtt, r>>, <<>>)

NextGrace ==
    Apply("grace_ms", GraceMs(call.arg[1], call.arg[2]))

SpecGrace == InitGrace /\ [][NextGrace]_vars

\* The whole run with a receiver that is handed datagrams that are no
\* probe echoes and whose recvfrom can fail, the clock standing still.
NextRecv ==
    \/ signal_handler
    \/ Sender
    \/ Finally
    \/ ThreadExits
    \/ \E s \in RecvSeqs : receiver_thread(s, 0)
    \/ \E data \in Malformed : receiver_recvfrom(data)
    \/ receiver_error

SpecRecv == InitLife /\ [][NextRecv]_vars

\* The run of a fixed duration next to the unlimited one, under a clock
\* that runs to the end of the timed run, and no echo coming back.  Time
\* always advances and the main thread keeps running.
Durations == {DefaultDuration, 1}

TimedEnd == RampMs + 1000

TimedClock == Elapse(TimedEnd \div 2, TimedEnd)

InitTimed == InitArgs({DefaultRate}, Durations)

NextTimed ==
    \/ TimedClock
    \/ signal_handler
    \/ Sender
    \/ SenderTimeout
    \/ stats_writer_thread
    \/ Finally

SpecTimed ==
    /\ InitTimed /\ [][NextTimed]_vars
    /\ WF_vars(TimedClock)
    /\ WF_vars(Sender \/ SenderTimeout)
    /\ WF_vars(Finally)

\* The run against a responder that echoes every probe it was sent and
\* puts the number of echoes it has made so far into each echo: the echo
\* of probe s carries the count s.  Echoes may come late and out of
\* order; the clock stands still.  The run starts fresh, or it has sent n
\* probes and recorded the echoes of all but the first j, which are still
\* on their way.
EchoRuns == {0, ResyncSlack + 1, ResyncSlack + MaxSeq}

LateMetrics(n, j) ==
    [ InitMetrics EXCEPT
        !.sent_count = n,
        !.sent_seqs = 1..n,
        !.sent_times = [s \in 1..n |-> 0],
        !.tx_attempts = n,
        !.received_seqs = (j + 1)..n,
        !.server_received = IF n > j THEN n ELSE 0,
        !.last_seen_server_count = IF n > j THEN n ELSE 0,
        !.rtts = [i \in 1..(n - j) |-> 0],
        !.last_transit_time = IF n > j THEN <<0>> ELSE <<>> ]

\* the probes whose echo the responder has made
Echoed ==
    {s \in metrics.sent_seqs :
        s < seq \/ pc \notin {"attempt", "sendto", "failed"}}

InitEcho ==
    /\ rate = DefaultRate
    /\ test_end_time = TestEndTime(0, DefaultDuration)
    /\ \E n \in EchoRuns, j \in 0..MaxRecvSeq :
          /\ j <= n
          /\ seq = n
          /\ metrics = LateMetrics(n, j)
    /\ now = 0
    /\ pc = "loop"
    /\ stop_event = FALSE
    /\ graceful_shutdown = FALSE
    /\ rpc = "recv"
    /\ ppc = "check"
    /\ mloc = Idle
    /\ ploc = Idle
    /\ poll = NoPoll
    /\ sink = "none"
    /\ lastOp = Op("init")
    /\ InitServer
    /\ pace = InitPace
    /\ voice = NoVoice
    /\ call = NoCall

NextEcho ==
    \/ signal_handler
    \/ Sender
    \/ stats_writer_thread
    \/ Finally
    \/ \E s \in Echoed \cap RecvSeqs : receiver_thread(s, s)

SpecEcho == InitEcho /\ [][NextEcho]_vars

\* The echo server on its own: the port threads take the datagrams of
\* one convergence test and of one voice caller in any order on any port,
\* and the maintenance loop removes the sessions after a quiet time.
NextEchoServer ==
    \/ \E p \in Ports : handle_port(p)
    \/ maintenance

SpecServer == Init /\ [][NextEchoServer]_vars

\* ---------------------------------------- get_stats step by step
\* get_stats holds the lock for the copies only (lines 138-164), reads
\* time.time() again and computes outside it (lines 166-194), and stores
\* self.max_blackout without the lock (line 196).
MainCopy ==
    /\ pc = "finally"
    /\ mloc = Idle
    /\ mloc' = [stage |-> "copied", v |-> StatsCopy(metrics)]
    /\ lastOp' = Op("main_copy")
    /\ UNCHANGED <<metrics, rate, test_end_time, now, seq, pc, stop_event, graceful_shutdown,
                   rpc, ppc, ploc, poll, sink,
                   server, call, pace, voice>>

MainCompute ==
    /\ mloc.stage = "copied"
    /\ mloc' = [stage |-> "computed",
                v |-> ComputeStats(mloc.v, rate, now, TRUE)]
    /\ lastOp' = Op("main_compute")
    /\ UNCHANGED <<metrics, rate, test_end_time, now, seq, pc, stop_event, graceful_shutdown,
                   rpc, ppc, ploc, poll, sink,
                   server, call, pace, voice>>

MainReturn ==
    /\ mloc.stage = "computed"
    /\ RunningStatsWith(mloc.v)

\* stats_writer_thread, lines 297-298
WriterCopy ==
    /\ ppc = "check"
    /\ ~stop_event
    /\ ploc = Idle
    /\ ploc' = [stage |-> "copied", v |-> StatsCopy(metrics)]
    /\ lastOp' = Op("writer_copy")
    /\ UNCHANGED <<metrics, rate, test_end_time, now, seq, pc, stop_event, graceful_shutdown,
                   rpc, ppc, mloc, poll, sink,
                   server, call, pace, voice>>

WriterCompute ==
    /\ ploc.stage = "copied"
    /\ ploc' = [stage |-> "computed",
                v |-> ComputeStats(ploc.v, rate, now, TRUE)]
    /\ lastOp' = Op("writer_compute")
    /\ UNCHANGED <<metrics, rate, test_end_time, now, seq, pc, stop_event, graceful_shutdown,
                   rpc, ppc, mloc, poll, sink,
                   server, call, pace, voice>>

\* lines 196, 236-268, 299-304: store, return, json.dump
WriterReturn ==
    /\ ploc.stage = "computed"
    /\ metrics' = StoreMaxBlackout(metrics, ploc.v)
    /\ sink' = ploc.v.status
    /\ ploc' = Idle
    /\ lastOp' = Returned(StatsDict(metrics, ploc.v))
    /\ UNCHANGED <<rate, test_end_time, now, seq, pc, stop_event, graceful_shutdown,
                   rpc, ppc, mloc, poll,
                   server, call, pace, voice>>

\* The stats writer and the shutdown sequence's first snapshot (line 463)
\* interleaved step by step with the receiver and the clock, which runs
\* one step further so that two outages of different length are seen.
InitRace == InitWith({DefaultRate})

NextRace ==
    \/ Tick(MaxTicks + 1)
    \/ signal_handler
    \/ SendRecord
    \/ SendAttempt
    \/ SendOk
    \/ SenderExit
    \/ MainCopy
    \/ MainCompute
    \/ MainReturn
    \/ WriterCopy
    \/ WriterCompute
    \/ WriterReturn
    \/ \E s \in RecvSeqs : receiver_thread(s, 0)

SpecRace == InitRace /\ [][NextRace]_vars

\* the probes that sendto has put on the wire: all before the current one,
\* and the current one once sendto has returned without raising
Transmitted ==
    {s \in 1..seq :
        \/ s < seq
        \/ pc \notin {"attempt", "sendto", "failed"} /\ metrics.tx_errors = 0}

\* The sender with send failures, the receiver and the two callers of
\* get_stats step by step, the responder echoing without a counter only
\* probes that were transmitted.
NextSent ==
    \/ signal_handler
    \/ Sender
    \/ MainCopy
    \/ MainCompute
    \/ MainReturn
    \/ WriterCopy
    \/ WriterCompute
    \/ WriterReturn
    \/ \E s \in Transmitted \cap RecvSeqs : receiver_thread(s, 0)

SpecSent == InitRace /\ [][NextSent]_vars

\* The send loop on its own schedule: every tick sends at once or after a
\* stall of 0.6 s or 2 s, at a target rate below and above the floor.
InitPacing == InitWith(Rates)

NextPacing ==
    \/ \E d \in {0, 600000, 2000000} : SendPaced(d)
    \/ signal_handler
    \/ SenderExit

SpecPacing == InitPacing /\ [][NextPacing]_vars

\* The send loop at its pace, the stats writer, and a responder that
\* echoes probes that were transmitted, without a counter or with the
\* counter of a session that starts over (1) or has counted 3 probes.
NextSplit ==
    \/ SendPaced(0)
    \/ stats_writer_thread
    \/ \E s \in Transmitted \cap RecvSeqs, cnt \in {0, 1, 3} :
          receiver_thread(s, cnt)

SpecSplit == InitPacing /\ [][NextSplit]_vars

\* the loop test without the signal flag
LoopTest_noSignal ==
    /\ pc = "loop"
    /\ ~stop_event
    /\ ~TimedOut(test_end_time, now)
    /\ pc' = "tick"
    /\ lastOp' = Op("loop_test")
    /\ UNCHANGED <<metrics, rate, test_end_time, now, seq, stop_event,
                   graceful_shutdown, rpc, ppc, mloc, ploc, poll, sink,
                   server, call, pace, voice>>

\* lines 409-422: the loop test and the two checks passed, the body of the
\* tick not yet run
LoopTest ==
    /\ pc = "loop"
    /\ ~stop_event /\ ~graceful_shutdown
    /\ ~TimedOut(test_end_time, now)
    /\ pc' = "tick"
    /\ lastOp' = Op("loop_test")
    /\ UNCHANGED <<metrics, rate, test_end_time, now, seq, stop_event,
                   graceful_shutdown, rpc, ppc, mloc, ploc, poll, sink,
                   server, call, pace, voice>>

\* lines 425-436: the body of the tick up to metrics.record_send(seq, now)
SendStart ==
    /\ pc = "tick"
    /\ seq < MaxSeq
    /\ seq' = seq + 1
    /\ metrics' = record_send(metrics, seq + 1, now)
    /\ pc' = "attempt"
    /\ lastOp' = [Op("record_send") EXCEPT !.seq = seq + 1]
    /\ UNCHANGED <<rate, test_end_time, now, stop_event, graceful_shutdown,
                   rpc, ppc, mloc, ploc, poll, sink, server, call, pace, voice>>

\* the sendto calls made so far
Sendtos == metrics.tx_attempts - (IF pc = "sendto" THEN 1 ELSE 0)

\* signal_handler run for the first signal, between any two steps of the
\* main thread; the number of sendto calls made before it is noted
SignalNoted ==
    /\ pc # "done"
    /\ ~graceful_shutdown
    /\ graceful_shutdown' = TRUE
    /\ call' = Call("signal", Sendtos, <<>>)
    /\ lastOp' = Op("signal")
    /\ UNCHANGED <<metrics, rate, test_end_time, now, seq, pc, stop_event,
                   rpc, ppc, mloc, ploc, poll, sink, server, pace, voice>>

\* The send loop with its loop test apart from the body of the tick, a
\* signal arriving at any point, and the shutdown sequence.
NextSignal ==
    \/ SignalNoted
    \/ signal_handler
    \/ LoopTest
    \/ SendStart
    \/ SendAttempt
    \/ SendOk
    \/ SendError
    \/ SendFailed
    \/ SenderExit
    \/ Finally
    \/ ThreadExits
    \/ \E s \in Transmitted \cap RecvSeqs : receiver_thread(s, 0)

SpecSignal == InitLife /\ [][NextSignal]_vars

\* lines 409-435, one pass of the sending loop: rtp.sequence = i,
\* record_send(i, send_time), then send(packet).  A sequence above 65535 does
\* not fit the 16-bit field: the packet library either refuses to build
\* the packet, and the exception ends the run, or builds the field from
\* the low 16 bits.
VoiceSend(wraps) ==
    /\ voice.pc = "loop"
    /\ voice.i < voice.count
    /\ LET i == voice.i + 1
           v == VoiceRecordSend([voice EXCEPT !.i = i], i)
           field == IF wraps THEN SeqField_wrapped(i) ELSE SeqField(i)
       IN voice' = IF field = <<>> THEN [v EXCEPT !.pc = "raised"]
                   ELSE [v EXCEPT !.wire = @ \cup {[frame |-> i,
                                                    field |-> field]}]
    /\ call' = Call("send", voice.i + 1, <<>>)
    /\ UNCHANGED <<now, orch, server>>

\* lines 446-447: the loop is over, the last echoes are waited for and the
\* receiver is stopped
VoiceEnd ==
    /\ voice.pc = "loop"
    /\ voice.i = voice.count
    /\ voice.wire = {}
    /\ voice' = [voice EXCEPT !.pc = "done"]
    /\ call' = Call("stop", <<>>, <<>>)
    /\ UNCHANGED <<now, orch, server>>

\* receiver_thread, lines 265-272: the echo of a frame, returned as it was
\* sent, is decoded and recorded; the step notes the loop index of the
\* frame and the sequence counted for it, if any
VoiceReceive(d) ==
    /\ voice.pc \in {"loop", "raised"}
    /\ LET s == SeqOfField(d.field)
           v == VoiceRecordReceive(voice, s)
       IN /\ voice' = [v EXCEPT !.wire = @ \ {d}]
          /\ call' = Call("record_receive", d.frame,
                          IF v.received_seqs = voice.received_seqs
                          THEN <<>> ELSE <<s>>)
    /\ UNCHANGED <<now, orch, server>>

\* The voice run over its last frames: the frames before them were sent
\* and their echoes all counted or all lost; the packet count is 3, 103
\* or passes 65535.
InitVoice ==
    /\ Parked
    /\ call = NoCall
    /\ \E count \in {MaxFrames, 100 + MaxFrames,
                     SeqFieldMax - 1 + MaxFrames},
          echoed \in BOOLEAN :
          voice = [i |-> count - MaxFrames, count |-> count,
                   sent_times |-> 1..(count - MaxFrames),
                   received_seqs |-> IF echoed THEN 1..(count - MaxFrames)
                                     ELSE {},
                   wire |-> {}, pc |-> "loop"]

NextVoice ==
    \/ \E wraps \in BOOLEAN : VoiceSend(wraps)
    \/ \E d \in voice.wire : VoiceReceive(d)
    \/ VoiceEnd

SpecVoice == InitVoice /\ [][NextVoice]_vars

\* The whole run with the stats writer taken step by step: between its
\* loop test and its json.dump the main thread can run through the whole
\* finally block, whose joins (lines 549-551) come after the final write.
NextShutdown ==
    \/ signal_handler
    \/ Sender
    \/ Finally
    \/ WriterCopy
    \/ WriterCompute
    \/ WriterReturn
    \/ WriterStop

SpecShutdown == InitRace /\ [][NextShutdown]_vars

\* ------------------------------------------- runs longer than the window
\* The aggregator after n probes paced TickMs apart of which the first k
\* were echoed at once, the responder counting 1..k, and no snapshot taken
\* yet; the clock stands d after the last send.
PacedSeqs == {0, 1, HistoryLen - 1, HistoryLen, HistoryLen + 1,
              HistoryLen + MaxSeq}

PacedMetrics(n, k) ==
    [ InitMetrics EXCEPT
        !.sent_count = n,
        !.sent_seqs = 1..n,
        !.sent_times = [s \in 1..n |-> (s - 1) * TickMs],
        !.tx_attempts = n,
        !.received_seqs = 1..k,
        !.server_received = k,
        !.last_seen_server_count = k,
        !.rtts = [i \in 1..k |-> 0],
        !.last_transit_time = IF k > 0 THEN <<0>> ELSE <<>>,
        !.last_rcvd_time = IF k > 0 THEN (k - 1) * TickMs ELSE 0 ]

InitPaced ==
    /\ rate \in Rates
    /\ test_end_time = TestEndTime(0, DefaultDuration)
    /\ \E n \in PacedSeqs, k \in 0..MaxSeq, d \in 0..MaxTicks :
          /\ k <= n
          /\ seq = n
          /\ metrics = PacedMetrics(n, n - k)
          /\ now = (IF n > 0 THEN (n - 1) * TickMs ELSE 0) + d * TickMs
    /\ graceful_shutdown \in BOOLEAN
    /\ pc = IF graceful_shutdown THEN "finally" ELSE "loop"
    /\ stop_event = FALSE
    /\ rpc = "recv"
    /\ ppc = "check"
    /\ mloc = Idle
    /\ ploc = Idle
    /\ poll = NoPoll
    /\ sink = "none"
    /\ lastOp = Op("init")
    /\ InitServer
    /\ pace = InitPace
    /\ voice = NoVoice
    /\ call = NoCall

NextPaced ==
    \/ stats_writer_thread
    \/ Finally
    \/ ThreadExits
    \/ \E s \in {seq, seq + 1} \ {0} : receiver_thread(s, 0)

SpecPaced == InitPaced /\ [][NextPaced]_vars

\* The end of a run of SilentProbes probes, one every TickMs, none of
\* which was echoed: the loop is left on a signal, the clock advances, the
\* stats writer runs, and the finally block sleeps through its grace
\* period.
InitSilent ==
    /\ rate \in Rates
    /\ test_end_time = TestEndTime(0, DefaultDuration)
    /\ seq = SilentProbes
    /\ metrics = PacedMetrics(SilentProbes, 0)
    /\ now = (SilentProbes - 1) * TickMs
    /\ graceful_shutdown = FALSE
    /\ pc = "loop"
    /\ stop_event = FALSE
    /\ rpc = "recv"
    /\ ppc = "check"
    /\ mloc = Idle
    /\ ploc = Idle
    /\ poll = NoPoll
    /\ sink = "none"
    /\ lastOp = Op("init")
    /\ InitServer
    /\ pace = InitPace
    /\ voice = NoVoice
    /\ call = NoCall

NextSilent ==
    \/ Elapse(TickMs, (SilentProbes + MaxTicks) * TickMs)
    \/ signal_handler
    \/ SenderExit
    \/ stats_writer_thread
    \/ RunningStats
    \/ GraceEndSilent
    \/ PollCheck
    \/ PollStats
    \/ FinalStats

SpecSilent == InitSilent /\ [][NextSilent]_vars

\* The echoes of JitterProbes probes sent TickMs apart come back in any
\* order while the clock advances, next to the echo of a sequence that was
\* never sent; every transit time is a multiple of TickMs.
InitJitter ==
    /\ rate = DefaultRate
    /\ test_end_time = TestEndTime(0, DefaultDuration)
    /\ seq = JitterProbes
    /\ metrics = PacedMetrics(JitterProbes, 0)
    /\ now = (JitterProbes - 1) * TickMs
    /\ graceful_shutdown = FALSE
    /\ pc = "loop"
    /\ stop_event = FALSE
    /\ rpc = "recv"
    /\ ppc = "check"
    /\ mloc = Idle
    /\ ploc = Idle
    /\ poll = NoPoll
    /\ sink = "none"
    /\ lastOp = Op("init")
    /\ InitServer
    /\ pace = InitPace
    /\ voice = NoVoice
    /\ call = NoCall

NextJitter ==
    \/ Elapse(TickMs, 2 * JitterProbes * TickMs)
    \/ \E s \in 1..(JitterProbes + 1) : receiver_thread(s, 0)

SpecJitter == InitJitter /\ [][NextJitter]_vars

\* ============================================================ properties
Ones == [i \in 1..HistoryLen |-> 1]

Snapshot == lastOp.op = "get_stats"

NewEcho == lastOp.op = "record_receive" /\ ~lastOp.dup

\* C1: a second record_receive for a sequence already received, whatever
\* its server count and receive time, leaves every field of the aggregator
\* as the first call left it.
C1_IdempotentReceive ==
    [][(lastOp'.op = "record_receive" /\ lastOp'.dup) => metrics' = metrics]_vars

\* a duplicate echo of a sent sequence arrived later than the first one and
\* with another server count
C1_Witness ==
    /\ lastOp.op = "record_receive" /\ lastOp.dup
    /\ lastOp.seq \in metrics.sent_seqs
    /\ now > metrics.last_rcvd_time
    /\ lastOp.cnt # metrics.last_seen_server_count

\* C2: under every interleaving of the snapshot callers with the receiver
\* the stored max_blackout never decreases, except that a stopped snapshot
\* of a run with received = sent may reset it to 0.
C2_MaxBlackoutRatchet ==
    [][ \/ metrics'.max_blackout >= metrics.max_blackout
        \/ /\ lastOp'.op = "get_stats"
           /\ lastOp'.ret.status = "stopped"
           /\ lastOp'.ret.received = lastOp'.ret.sent
           /\ metrics'.max_blackout = 0 ]_vars

\* C3: a snapshot with a server counter (server_received > 0) and no
\* desynchronisation has tx_lost_packets + rx_lost_packets = sent - received.
C3_LossConservation ==
    (Snapshot /\ lastOp.ret.server_received > 0 /\ ~lastOp.ret.sync_lost)
        => lastOp.ret.tx_lost_packets + lastOp.ret.rx_lost_packets
             = lastOp.ret.sent - lastOp.ret.received

\* C4: no snapshot reports a negative tx_lost_packets or rx_lost_packets;
\* when the server count is below the received count all loss is RX loss.
C4_NoNegativeLoss ==
    Snapshot =>
        /\ lastOp.ret.tx_lost_packets >= 0
        /\ lastOp.ret.rx_lost_packets >= 0
        /\ (lastOp.ret.server_received > 0 /\ lastOp.ret.sent > 0
              /\ lastOp.ret.server_received < lastOp.ret.received)
             => /\ lastOp.ret.tx_lost_packets = 0
                /\ lastOp.ret.rx_lost_packets
                     = lastOp.ret.sent - lastOp.ret.received

\* C5 as stated: every received sequence has a SentRecord.
C5_ReceivedSubsetSent == metrics.received_seqs \subseteq metrics.sent_seqs

\* C5 amended: an echo is counted as received whether or not its sequence
\* has a SentRecord, but only the first echo of a sequence that has a
\* SentRecord adds an RTT sample or moves the jitter estimate.
C5_RttOnlyForSent ==
    [][ (metrics'.rtts # metrics.rtts
           \/ metrics'.jitter # metrics.jitter
           \/ metrics'.last_transit_time # metrics.last_transit_time)
        => /\ lastOp'.op = "record_receive" /\ ~lastOp'.dup
           /\ lastOp'.seq \in DOMAIN metrics.sent_times
           /\ Len(metrics'.rtts) = Len(metrics.rtts) + 1 ]_vars

\* the echo of a sequence without SentRecord was counted as received
C5_Witness ==
    /\ NewEcho
    /\ lastOp.seq \in metrics.received_seqs
    /\ lastOp.seq \notin metrics.sent_seqs
    /\ Len(metrics.rtts) < Cardinality(metrics.received_seqs)

\* C6: the history of every snapshot has exactly 100 entries, each 0 or 1.
C6_HistoryLength ==
    Snapshot =>
        /\ Len(lastOp.ret.history) = 100
        /\ \A i \in 1..Len(lastOp.ret.history) : lastOp.ret.history[i] \in {0, 1}

\* a snapshot of a run of more than 100 probes whose newest probe failed
C6_Witness ==
    /\ Snapshot
    /\ lastOp.ret.sent > 100
    /\ lastOp.ret.history[100] = 0

C8_BlackoutOnlyOnGap ==
    [][ (lastOp'.op = "get_stats"
           /\ \/ lastOp'.ret.current_blackout_ms # 0
              \/ metrics'.max_blackout # metrics.max_blackout
              \/ lastOp'.ret.max_blackout_ms # metrics.max_blackout)
        => /\ lastOp'.ret.taken_at - lastOp'.ret.last_rcvd_time > 100
           /\ 2 * rate * (lastOp'.ret.taken_at - lastOp'.ret.last_rcvd_time)
                > 3 * 1000
           /\ lastOp'.ret.sent > lastOp'.ret.received ]_vars

\* a blackout flagged at 5 pps, where the threshold is 300 ms
C8_Witness ==
    /\ Snapshot
    /\ rate = 5
    /\ lastOp.ret.current_blackout_ms > 300
    /\ lastOp.ret.max_blackout_ms = lastOp.ret.current_blackout_ms

\* C9: sync_lost is raised by exactly the first echoes of a sequence whose
\* server count is more than 100 below the one seen before, it is never
\* cleared, and every snapshot taken while it is set reports it.
C9_SyncLostRaised ==
    [][ /\ (lastOp'.op = "record_receive" /\ ~lastOp'.dup
              /\ lastOp'.cnt < metrics.last_seen_server_count - 100)
            => metrics'.sync_lost
        /\ (metrics'.sync_lost /\ ~metrics.sync_lost)
            => /\ lastOp'.op = "record_receive" /\ ~lastOp'.dup
               /\ lastOp'.cnt < metrics.last_seen_server_count - 100
        /\ metrics.sync_lost => metrics'.sync_lost
        /\ (lastOp'.op = "get_stats" /\ metrics.sync_lost)
            => lastOp'.ret.sync_lost ]_vars

\* a snapshot reporting sync_lost after the flag was raised
C9_Witness ==
    /\ Snapshot
    /\ metrics.sync_lost
    /\ lastOp.ret.sync_lost

\* C10 as stated: once an echo carries server count 3 after 50 was seen,
\* sync_lost is set.
C10_Reset50To3 ==
    [][ (lastOp'.op = "record_receive" /\ ~lastOp'.dup
           /\ lastOp'.cnt = 3 /\ metrics.last_seen_server_count = 50)
        => metrics'.sync_lost ]_vars

\* C10 amended: an echo carrying server count 3 after 150 was seen sets
\* sync_lost and the snapshots taken afterwards report it; server count 3
\* after 50 is within the slack of 100 and leaves the flag as it was.
C10_ResetBeyondSlack ==
    [][ /\ (lastOp'.op = "record_receive" /\ ~lastOp'.dup /\ lastOp'.cnt = 3
              /\ metrics.last_seen_server_count = 150)
            => (metrics'.sync_lost /\ metrics'.server_received_offset
                                        = metrics.server_received_offset + 150)
        /\ (lastOp'.op = "record_receive" /\ ~lastOp'.dup /\ lastOp'.cnt = 3
              /\ metrics.last_seen_server_count = 50)
            => metrics'.sync_lost = metrics.sync_lost
        /\ (lastOp'.op = "get_stats" /\ metrics.server_received_offset > 0)
            => lastOp'.ret.sync_lost ]_vars

\* a snapshot taken after the counter fell from 150 to 3
C10_Witness ==
    /\ Snapshot
    /\ lastOp.ret.sync_lost
    /\ metrics.server_received_offset = 150
    /\ metrics.last_seen_server_count = 3

\* C11: the stored server_received never decreases, whatever counts the
\* echoes carry; every snapshot reports the stored value; an echo that is
\* taken for a restart adds the count seen last to the offset, and every
\* new echo's count enters as offset + count.
C11_ServerReceivedMonotonic ==
    [][ /\ metrics'.server_received >= metrics.server_received
        /\ metrics'.server_received_offset >= metrics.server_received_offset
        /\ lastOp'.op = "get_stats"
            => lastOp'.ret.server_received = metrics.server_received
        /\ (lastOp'.op = "record_receive" /\ ~lastOp'.dup)
            => /\ metrics'.server_received_offset =
                    IF lastOp'.cnt < metrics.last_seen_server_count - 100
                    THEN metrics.server_received_offset
                           + metrics.last_seen_server_count
                    ELSE metrics.server_received_offset
               /\ metrics'.server_received >=
                    metrics'.server_received_offset + lastOp'.cnt
               /\ metrics'.server_received \in
                    {metrics.server_received,
                     metrics'.server_received_offset + lastOp'.cnt} ]_vars

\* a snapshot after a restart: 150 seen, then 3, reported as 153
C11_Witness ==
    /\ Snapshot
    /\ lastOp.ret.server_received = 153
    /\ metrics.server_received_offset = 150

\* C12: once record_send(seq) has been followed by mark_send_failed(seq),
\* seq has no SentRecord and is not listed as missed, tx_attempts and
\* tx_errors count it, and every snapshot reports sent and its loss figure
\* without it.
C12_FailedSendNotSent ==
    (metrics.tx_errors > 0 /\ pc # "failed")
        => /\ seq \notin metrics.sent_seqs
           /\ seq \notin DOMAIN metrics.sent_times
           /\ seq \notin Missed(metrics)
           /\ metrics.tx_attempts = seq
           /\ metrics.tx_errors = 1
           /\ Snapshot
               => /\ lastOp.ret.sent = seq - 1
                  /\ lastOp.ret.sent_seqs_size = seq - 1
                  /\ lastOp.ret.tx_attempts = seq
                  /\ lastOp.ret.tx_errors = 1
                  /\ lastOp.ret.server_received = 0
                      => lastOp.ret.tx_lost_packets
                           = (seq - 1) - lastOp.ret.received

\* a stopped snapshot after the second send failed and the first probe
\* was never echoed
C12_Witness ==
    /\ Snapshot /\ lastOp.ret.status = "stopped"
    /\ metrics.tx_errors = 1
    /\ seq = 2
    /\ lastOp.ret.sent = 1
    /\ lastOp.ret.tx_lost_packets = 1
    /\ lastOp.ret.tx_attempts = 2

\* C13: a failed sendto is followed by record_send_error, then by
\* mark_send_failed for that sequence and the end of the send loop; no
\* sequence is sent afterwards, and the run reaches the final snapshot,
\* which has status stopped and is written to the stats file.
C13_SendFailureAborts ==
    /\ [][ /\ lastOp'.op = "record_send_error"
               => /\ metrics'.tx_errors = metrics.tx_errors + 1
                  /\ pc' = "failed"
           /\ (pc = "failed" /\ pc' # "failed")
               => /\ lastOp'.op = "mark_send_failed" /\ lastOp'.seq = seq
                  /\ seq \notin metrics'.sent_seqs
                  /\ pc' = "finally"
           /\ metrics.tx_errors > 0
               => /\ seq' = seq
                  /\ metrics'.sent_seqs \subseteq metrics.sent_seqs
                  /\ metrics'.tx_attempts = metrics.tx_attempts
                  /\ pc' \notin {"loop", "attempt", "sendto"}
           /\ (pc' = "done" /\ pc # "done")
               => /\ lastOp'.op = "get_stats"
                  /\ lastOp'.ret.status = "stopped"
                  /\ sink' = "stopped" ]_vars
    /\ (metrics.tx_errors > 0) ~> (pc = "done")

\* the run ended after the second send failed
C13_Witness ==
    /\ pc = "done"
    /\ sink = "stopped"
    /\ metrics.tx_errors = 1
    /\ seq = 2
    /\ metrics.sent_seqs = {1}

\* C14: the sender records the sequences 1, 2, 3, ... in increasing order
\* and none twice; the SentRecords are the range 1..k, and the sent of a
\* snapshot, the largest recorded sequence, is the number of SentRecords.
C14_SentContiguous ==
    [][ /\ metrics'.sent_seqs = 1..Cardinality(metrics'.sent_seqs)
        /\ DOMAIN metrics'.sent_times = metrics'.sent_seqs
        /\ lastOp'.op = "record_send"
            => /\ lastOp'.seq = seq + 1
               /\ seq' = seq + 1
               /\ lastOp'.seq \notin metrics.sent_seqs
               /\ \A k \in metrics.sent_seqs : k < lastOp'.seq
               /\ metrics'.sent_seqs = metrics.sent_seqs \cup {lastOp'.seq}
        /\ lastOp'.op = "get_stats"
            => /\ lastOp'.ret.sent = lastOp'.ret.sent_seqs_size
               /\ lastOp'.ret.sent = Cardinality(metrics.sent_seqs) ]_vars

\* a snapshot after two probes were recorded, the second echoed first
C14_Witness ==
    /\ Snapshot
    /\ lastOp.ret.sent = 2
    /\ lastOp.ret.sent_seqs_size = 2
    /\ metrics.received_seqs = {2}

\* the stage of the run that the main thread's position stands for:
\* sending, first snapshot, grace period, polling, final snapshot, ended
Phase(p) ==
    CASE p \in {"loop", "attempt", "sendto", "failed"} -> 1
      [] p = "finally" -> 2
      [] p = "grace" -> 3
      [] p \in {"poll_check", "poll"} -> 4
      [] p = "final" -> 5
      [] p = "done" -> 6

\* C15: the run goes through sending, grace period, polling and final
\* snapshot in this order, one stage at a time and never back; nothing is
\* sent once the send loop has ended; stop_event is set only at the end of
\* the grace period, so the writer and the receiver run during it and an
\* echo that arrives then is recorded; the snapshot that ends the run has
\* status stopped and follows the polling.
C15_LifecycleOrder ==
    [][ /\ Phase(pc') \in {Phase(pc), Phase(pc) + 1}
        /\ Phase(pc) >= 2
            => /\ seq' = seq
               /\ metrics'.sent_seqs = metrics.sent_seqs
               /\ metrics'.tx_attempts = metrics.tx_attempts
        /\ stop_event => stop_event'
        /\ (stop_event' /\ ~stop_event) => (pc = "grace" /\ Phase(pc') = 4)
        /\ Phase(pc') <= 3 => ~stop_event'
        /\ (pc = "grace" /\ lastOp'.op = "record_receive" /\ ~lastOp'.dup)
            => lastOp'.seq \in metrics'.received_seqs
        /\ (lastOp'.op = "get_stats" /\ lastOp'.ret.status = "stopped")
            => (stop_event /\ Phase(pc) \in {4, 5})
        /\ (pc' = "done" /\ pc # "done")
            => /\ pc = "final"
               /\ lastOp'.op = "get_stats"
               /\ lastOp'.ret.status = "stopped" ]_vars

\* an echo recorded during the grace period, before the threads are told
\* to stop
C15_Witness ==
    /\ pc = "grace"
    /\ ~stop_event
    /\ NewEcho
    /\ lastOp.seq \in metrics.received_seqs
    /\ lastOp.seq \in metrics.sent_seqs

C17_SignalsOnlySetFlag ==
    /\ [][ lastOp'.op = "signal"
            => /\ graceful_shutdown'
               /\ UNCHANGED <<metrics, rate, test_end_time, now, seq, pc,
                              stop_event, rpc, ppc, mloc, ploc, poll, sink,
                   server, call, pace, voice>>
       ]_vars
    /\ [][ /\ lastOp'.op = "stop_event_set" => (~stop_event /\ stop_event')
           /\ Phase(pc') # Phase(pc) => Phase(pc') = Phase(pc) + 1
           /\ sink' # sink => (sink' = "stopped") = (pc = "final" /\ pc' = "done")
           /\ pc = "done" => (pc' = "done" /\ sink' = sink) ]_vars
    /\ graceful_shutdown ~> (pc = "done" /\ stop_event /\ sink = "stopped")

\* one more signal during the polling of a run that a signal had ended
C17_Witness ==
    /\ lastOp.op = "signal"
    /\ pc \in {"poll_check", "poll"}
    /\ poll.stable_count > 0
    /\ graceful_shutdown
    /\ metrics.tx_errors = 0
    /\ test_end_time = <<>>

\* C18: a field of the aggregator changes only in a step whose write is
\* made with the aggregator's lock held.
C18_WritesUnderLock ==
    [][metrics' # metrics => lastOp'.op \in LockedWrites]_vars

\* C19: against the responder that echoes every probe and counts its
\* echoes, the final snapshot of a run whose N sent probes have all been
\* echoed back has sent = received = server_received = N, no loss in
\* percent or in packets on either leg, and sync_lost false.
C19_PerfectRun ==
    (/\ pc = "done"
     /\ Snapshot
     /\ metrics.received_seqs = metrics.sent_seqs)
        => /\ lastOp.ret.status = "stopped"
           /\ lastOp.ret.sent = Cardinality(metrics.sent_seqs)
           /\ lastOp.ret.received = lastOp.ret.sent
           /\ lastOp.ret.server_received = lastOp.ret.sent
           /\ lastOp.ret.loss_pct = 0
           /\ lastOp.ret.tx_lost_packets = 0
           /\ lastOp.ret.rx_lost_packets = 0
           /\ lastOp.ret.tx_loss_ms = 0
           /\ lastOp.ret.rx_loss_ms = 0
           /\ ~lastOp.ret.sync_lost

C21_SilentHistoryAllZero ==
    (/\ pc = "done"
     /\ Snapshot
     /\ lastOp.ret.sent = SilentProbes
     /\ lastOp.ret.received = 0)
        => /\ Len(lastOp.ret.history) = HistoryLen
           /\ \A i \in 1..HistoryLen : lastOp.ret.history[i] = 0

\* C21, amended: that history is the padding of 100 - SilentProbes ones
\* followed by one 0 for each of the SilentProbes probes.
C21_SilentHistoryPaddedZeros ==
    (/\ pc = "done"
     /\ Snapshot
     /\ lastOp.ret.sent = SilentProbes
     /\ lastOp.ret.received = 0)
        => /\ lastOp.ret.status = "stopped"
           /\ Len(lastOp.ret.history) = HistoryLen
           /\ \A i \in 1..(HistoryLen - SilentProbes) :
                 lastOp.ret.history[i] = 1
           /\ \A i \in (HistoryLen - SilentProbes + 1)..HistoryLen :
                 lastOp.ret.history[i] = 0

\* the final snapshot of the run without echoes, taken after the grace
\* period
C21_Witness ==
    /\ pc = "done"
    /\ Snapshot
    /\ lastOp.ret.sent = SilentProbes
    /\ lastOp.ret.received = 0
    /\ lastOp.ret.loss_pct = 1000
    /\ lastOp.ret.history[1] = 1
    /\ lastOp.ret.history[HistoryLen] = 0
    /\ lastOp.ret.taken_at >= (SilentProbes - 1) * TickMs + GraceMs(0, rate)

\* C22: every echo gives back the datagram it answers, with a suffix :S<n>
\* for a convergence probe and without one otherwise, and of two echoes of
\* one session the one sent later never carries the smaller n.
C22_EchoCountsIncrease ==
    \A j \in 1..Len(echoes) :
        /\ (echoes[j].suffix # <<>>) = (echoes[j].kind = "conv")
        /\ \A i \in 1..(j - 1) :
              (/\ echoes[i].kind = "conv"
               /\ echoes[j].kind = "conv"
               /\ echoes[i].key = echoes[j].key
               /\ echoes[i].start_time = echoes[j].start_time)
                 => echoes[i].suffix[1] <= echoes[j].suffix[1]

\* C23: the receiver loop is left only when the stop flag is set, whatever
\* it received or failed to receive, and a datagram that is no probe echo
\* leaves the aggregator as it was.
C23_ReceiverEndsOnlyOnStop ==
    [][/\ (rpc = "recv" /\ rpc' = "done") => stop_event
       /\ (call' # call /\ call'.arg \in Malformed)
             => metrics' = metrics]_vars

\* the transit time deltas |D| of the matched echoes, in their order
TransitDelta(k) == Abs(metrics.rtts[k] - metrics.rtts[k - 1])

RECURSIVE Pow(_, _)
Pow(b, e) == IF e = 0 THEN 1 ELSE b * Pow(b, e - 1)

\* 16^(n-1) times the estimate that n matched echoes leave when each but
\* the first moves it by (|D| - J)/16
RECURSIVE JitterSum(_)
JitterSum(n) ==
    IF n <= 1 THEN 0
    ELSE 15 * JitterSum(n - 1) + TransitDelta(n) * Pow(16, n - 2)

\* C24: the jitter estimate is never negative and never above the largest
\* |D| seen; it is 0 up to the first matched echo, and after n matched
\* echoes it is what the updates J += (|D| - J)/16 of the echoes 2..n make
\* of 0.
C24_JitterBounded ==
    LET n == Len(metrics.rtts)
        j == metrics.jitter
    IN /\ j[2] > 0
       /\ j[1] >= 0
       /\ n <= 1 => j[1] = 0
       /\ \A k \in 2..n :
             (\A i \in 2..n : TransitDelta(i) <= TransitDelta(k))
                => j[1] <= TransitDelta(k) * j[2]
       /\ n >= 1 => j[1] * Pow(16, n - 1) = JitterSum(n) * j[2]

\* three matched echoes with different deltas, the estimate between them
C24_Witness ==
    /\ Len(metrics.rtts) >= 3
    /\ TransitDelta(2) > 0
    /\ TransitDelta(3) > 0
    /\ TransitDelta(2) # TransitDelta(3)
    /\ metrics.jitter[1] > 0
    /\ metrics.received_seqs # metrics.sent_seqs \cap metrics.received_seqs

\* C25: the port derived for the id CONV-<n> is 30000 + (n mod 10000),
\* one of 30000..39999; a port is only replaced after its bind failed, by
\* one of 40000..59999, which no id gives.
C25_SourcePortFromId ==
    [][/\ \A n \in PortNums :
             (call'.arg = ConvId(n)
              /\ call'.fn \in {"source_port", "bound", "in_use"})
                => /\ call'.ret = <<30000 + (n % 10000)>>
                   /\ call'.ret[1] \in 30000..39999
       /\ (call' # call /\ call'.fn # "source_port"
           /\ call'.ret # call.ret)
             => /\ call.fn = "in_use"
                /\ call'.ret[1] \in 40000..59999
                /\ \A id \in PortIds : call'.ret[1] # SourcePort(TestNum(id))]_vars

\* the port of CONV-10001 was in use and a random one was bound
C25_Witness ==
    /\ call.fn = "fallback"
    /\ call.arg = ConvId(10001)
    /\ call.ret = <<40001>>

\* C26: whatever the round trip time, jitter, loss and equipment
\* impairment, the R-factor of the scorer lies in 0..100 and its MOS in
\* 1.0..4.5; for 20 ms, 2 ms, 0 % and 0 the MOS is at least 4.4.
C26_MosClamped ==
    call.fn = "calculate_mos"
        => /\ call.ret[1] >= 0
           /\ call.ret[1] <= 1000
           /\ call.ret[2] >= 100
           /\ call.ret[2] <= 450
           /\ call.arg = <<20, 2, 0, 0>> => call.ret[2] >= 440

\* the scenario of C26 scored
C26_Witness ==
    /\ call.fn = "calculate_mos"
    /\ call.arg = <<20, 2, 0, 0>>
    /\ call.ret = <<932, 441>>

\* C27: once the final snapshot is written the stats writer writes no
\* more, and the sink keeps the status stopped.
C27_NoWriteAfterFinal ==
    [][pc = "done" => /\ sink' = "stopped"
                      /\ ~(ploc # Idle /\ ploc' = Idle)]_vars

\* C28: once the sender has stopped and the shutdown has taken its first
\* snapshot, no snapshot raises the stored or the reported max_blackout.
C28_NoBlackoutAfterSending ==
    [][ (pc \in {"grace", "poll_check", "poll", "final"})
         => (/\ metrics'.max_blackout = metrics.max_blackout
             /\ lastOp'.op = "get_stats"
                   => lastOp'.ret.max_blackout_ms = metrics.max_blackout)
      ]_vars

\* C29: the echo of the probe with sequence s decodes to s and to the
\* count the responder appended, 0 when it appended none, whatever the id
\* and the label of the probe.
C29_PayloadRoundTrip ==
    call.fn = "decoded"
        => call.ret = <<call.arg.seq,
                        IF call.arg.count = <<>> THEN 0
                        ELSE call.arg.count[1]>>

\* C30: the slot i of 1..100 of the history of a snapshot stands for the
\* sequence sent - 100 + i.  It is 1 before sequence 1, 1 for a sequence
\* received, 1 for a sequence not received that was sent no longer ago
\* than max(100 ms, 1.5 intervals), and 0 only for a sequence not received
\* that was sent longer ago than that.
C30_HistorySlots ==
    [][ lastOp'.op = "get_stats"
         => \A i \in 1..HistoryLen :
               LET s == lastOp'.ret.sent - HistoryLen + i
                   slot == lastOp'.ret.history[i]
                   late == /\ s \in DOMAIN metrics.sent_times
                           /\ lastOp'.ret.taken_at - metrics.sent_times[s] > 100
                           /\ 2 * rate * (lastOp'.ret.taken_at
                                            - metrics.sent_times[s]) > 3000
               IN /\ Len(lastOp'.ret.history) = HistoryLen
                  /\ s < 1 => slot = 1
                  /\ (s >= 1 /\ s \in metrics.received_seqs) => slot = 1
                  /\ (s >= 1 /\ s \notin metrics.received_seqs /\ ~late)
                        => slot = 1
                  /\ slot = 0 => (s >= 1 /\ s \notin metrics.received_seqs
                                     /\ late)
      ]_vars

\* a snapshot of a run of more than 100 probes that is still running: the
\* newest probe not yet echoed but recent, the one before it long overdue,
\* an older one echoed
C30_Witness ==
    /\ Snapshot
    /\ lastOp.ret.status = "running"
    /\ lastOp.ret.sent > HistoryLen
    /\ lastOp.ret.sent \notin metrics.received_seqs
    /\ lastOp.ret.history[HistoryLen] = 1
    /\ lastOp.ret.history[HistoryLen - 1] = 0
    /\ lastOp.ret.history[1] = 1
    /\ (lastOp.ret.sent - HistoryLen + 1) \in metrics.received_seqs

\* C31: after each tick the schedule has advanced by exactly one interval
\* or been reset to the current time, it is reset exactly when the sender
\* is more than 500 ms behind it, and the probes sent back-to-back without
\* sleeping span at most 500 ms worth of intervals.
C31_BurstWithin500ms ==
    pace.burst * pace.interval <= ResetLagUs

\* C31 as the loop keeps it: the schedule advances by one interval or is
\* reset when more than 500 ms late, and the probes sent back-to-back are
\* at most one more than 500 ms worth of intervals.
C31_PacingSchedule ==
    [][pace' # pace =>
         LET next == pace.next_send + pace'.interval
         IN /\ pace'.next_send \in {next, pace'.at}
            /\ (pace'.next_send # next) <=> (pace'.at - next > ResetLagUs)
            /\ pace'.at >= pace'.next_send
            /\ (pace'.burst = 0) <=> (pace'.at = next /\ pace'.at > pace.at)
            /\ (pace'.burst - 1) * pace'.interval <= ResetLagUs]_vars

C31_Witness ==
    /\ pace.burst = 6
    /\ pace.interval = 100000
    /\ pace.at = pace.next_send

\* C32: the send rate recomputed at every tick starts at the 10 pps floor,
\* never decreases, never exceeds the configured target rate and equals
\* the target rate from the end of the ramp on.
C32_RampRate ==
    [][pace' # pace =>
         /\ pace'.rate >= pace.rate
         /\ pace'.rate <= rate * 1000
         /\ (pace.at = 0) => (pace'.rate = RateFloor * 1000)
         /\ (pace.at >= RampMs * 1000) => (pace'.rate = rate * 1000)]_vars

\* C33: a poll resets the stable counter when the received count has
\* increased and counts one up otherwise, the poll loop ends as soon as
\* the counter reaches 3, a poll starts only within 1 s of the start of
\* the loop, and the loop, once entered, always ends.
C33_PollTerminates ==
    /\ [][ (pc = "poll" /\ pc' # "poll")
            => LET cur == lastOp'.ret.received
               IN /\ (cur > poll.last_rcvd) => (poll'.stable_count = 0)
                  /\ (cur <= poll.last_rcvd)
                       => (poll'.stable_count = poll.stable_count + 1)
                  /\ (pc' = "final") <=> (poll'.stable_count >= 3)
                  /\ now' >= now + 100 ]_vars
    /\ [](pc = "poll" => now - poll.wait_start < 1000)
    /\ [][ (pc = "poll_check" /\ pc' = "final")
            => now - poll.wait_start >= 1000 ]_vars
    /\ (pc = "poll_check") ~> (pc = "final")

C33_Witness ==
    /\ pc = "final"
    /\ lastOp.op = "poll_check"
    /\ poll.stable_count \in 1..2
    /\ poll.last_rcvd > 0
    /\ now - poll.wait_start >= 1000

\* C34: the grace period is the average RTT times 15 clamped to
\* [2000, 5000] ms below 1000 pps and times 20 clamped to [3000, 7000] ms
\* from 1000 pps on, 20 ms standing in for a missing RTT; it lies within
\* [2000, 7000] ms and is no shorter at a higher rate for the same RTT.
C34_GracePeriod ==
    call.fn = "grace_ms" =>
        LET avg == call.arg[1]
            rtt == IF avg = 0 THEN 20 ELSE avg
            Clamp(x, lo, hi) == IF x < lo THEN lo ELSE IF x > hi THEN hi ELSE x
        IN /\ call.arg[2] < 1000 => call.ret = Clamp(rtt * 15, 2000, 5000)
           /\ call.arg[2] >= 1000 => call.ret = Clamp(rtt * 20, 3000, 7000)
           /\ call.ret \in 2000..7000
           /\ \A lower \in {5, DefaultRate, 999, 1000, 5000} :
                lower <= call.arg[2]
                    => Clamp(rtt * (IF lower >= 1000 THEN 20 ELSE 15),
                             IF lower >= 1000 THEN 3000 ELSE 2000,
                             IF lower >= 1000 THEN 7000 ELSE 5000)
                         <= call.ret

C34_Witness ==
    /\ call.fn = "grace_ms"
    /\ call.arg = <<200, 1000>>
    /\ call.ret = 4000

\* C35: when the responder echoes only probes that were sent, every
\* snapshot, under any interleaving of sender, receiver and the callers of
\* get_stats, has received <= sent and a loss_pct within [0, 100] (kept in
\* tenths of a percent).
C35_ReceivedWithinSent ==
    Snapshot =>
        /\ lastOp.ret.received <= lastOp.ret.sent
        /\ lastOp.ret.loss_pct \in 0..1000

C35_Witness ==
    /\ Snapshot
    /\ lastOp.ret.sent = 2
    /\ lastOp.ret.received = 1
    /\ lastOp.ret.loss_pct = 500
    /\ pc = "sendto"
    /\ ploc = Idle

\* C36: with a single responder session whose echoes may arrive out of
\* order, every snapshot has server_received <= sent and an
\* rx_lost_packets of at most sent - received.
C36_ServerReceivedWithinSent ==
    Snapshot =>
        /\ lastOp.ret.server_received <= lastOp.ret.sent
        /\ lastOp.ret.rx_lost_packets
             <= lastOp.ret.sent - lastOp.ret.received

\* C37: in every snapshot tx_loss_pct and rx_loss_pct lie within
\* [0, 100] (kept in tenths of a percent), without a server counter, with
\* a plausible one and with one below the received count.
C37_DirectionalPctWithin100 ==
    Snapshot =>
        /\ lastOp.ret.tx_loss_pct \in 0..1000
        /\ lastOp.ret.rx_loss_pct \in 0..1000

\* C38: after a signal has set the flag the sender makes at most one
\* further sendto before it leaves the send loop, and none once the
\* shutdown sequence has begun.
C38_AtMostOneProbeAfterSignal ==
    /\ [](call.fn = "signal" => Sendtos - call.arg <= 1)
    /\ [][ (pc \notin {"loop", "tick", "attempt", "sendto", "failed"})
            => /\ Sendtos' = Sendtos
               /\ seq' = seq
               /\ pc' \notin {"loop", "tick", "attempt", "sendto", "failed"}
         ]_vars

C38_Witness ==
    /\ call.fn = "signal"
    /\ Sendtos - call.arg = 1
    /\ seq = 1
    /\ pc = "done"

\* C39: in a voice run every frame of the packet count is sent, and the
\* echo of the frame sent with loop index i is counted as sequence i,
\* also for packet counts above 65535.
C39_VoiceEchoMatched ==
    /\ voice.pc # "raised"
    /\ call.fn = "record_receive"
         => /\ call.ret = <<call.arg>>
            /\ call.arg \in voice.received_seqs

\* C40: the source_port of every snapshot is the port the probe socket is
\* bound to, also after the fallback to a random port.
C40_SnapshotPortIsBoundPort ==
    call.fn = "get_stats" => call.ret[2] = call.ret[1]

====
